---- MODULE Spec2Model ----
(***************************************************************************)
(* Entity proxy layer of the wisefood client (entities/base.py), modelled  *)
(* on the Article entity (entities/articles.py).                           *)
(*                                                                         *)
(* Strings are tuples of one-character strings, so that prefix tests,      *)
(* stripping and splitting are computed as the code computes them.         *)
(* A field value is a record: [str |-> chars] for a string, [list |-> w]   *)
(* for a list object (w tells the list a default factory built from one    *)
(* that came from the server or the caller), [none |-> TRUE] for None.     *)
(* A transport call either raises or returns a JSON mapping.               *)
(***************************************************************************)
EXTENDS Integers, Sequences, FiniteSets, TLC

VARIABLES
    data,    \* BaseEntity.data: mapping from key to value
    dirty,   \* BaseEntity._dirty_fields
    sync,    \* BaseEntity.sync
    calls,   \* transport calls of the last operation, in order, each with its reply
    last,    \* the last operation: its name, arguments, outcome and return value
    hist,    \* history: the field writes not yet cleared by a successful PATCH
    urns,    \* BaseCollectionProxy._urns: None, or the cached list of identifiers
    index,   \* history of the cache: index fetches that succeeded, the page, the appends
    profile, \* HouseholdMemberProfile: _data, _dirty_fields, _sync, and whether bound
    member,  \* HouseholdMember: _data, _profile, whether bound, profiles constructed
    response, \* the HTTP response handed to the error classifier
    client,  \* DataClient: _token, _token_expiry_ts, and the clock time.time() reads
    threads  \* two threads writing one entity: where each is, and what it holds

vars == <<data, dirty, sync, calls, last, hist, urns, index, profile,
          member, response, client, threads>>

\* the state of the entity, of the collection proxy, of the member profile
entityVars == <<data, dirty, sync, hist>>
proxyVars == <<urns, index>>
otherVars == <<member, response, client, threads>>

----------------------------------------------------------------------------
(* Strings *)

ENDPOINT == <<"a","r","t","i","c","l","e","s">>
URN_PREFIX == <<"u","r","n",":","a","r","t","i","c","l","e",":">>
Slash == <<"/">>

OneUrn == URN_PREFIX \o <<"o","n","e">>

RECURSIVE LStripSlash(_)
\* str.lstrip("/")
LStripSlash(s) ==
    IF s # <<>> /\ Head(s) = "/" THEN LStripSlash(Tail(s)) ELSE s

StartsWith(s, p) ==
    /\ Len(s) >= Len(p)
    /\ SubSeq(s, 1, Len(p)) = p

\* s.rsplit(":", 1)[1] for a string that holds a colon
AfterLastColon(s) ==
    LET i == CHOOSE j \in 1..Len(s) :
                 s[j] = ":" /\ \A k \in (j+1)..Len(s) : s[k] # ":"
    IN  SubSeq(s, i + 1, Len(s))

\* a normalization that keeps everything after the first colon
NormalizeAfterFirstColon(urn_or_slug) ==
    LET s == LStripSlash(urn_or_slug) IN
    IF \E i \in 1..Len(s) : s[i] = ":"
    THEN SubSeq(s, 1 + CHOOSE j \in 1..Len(s) :
                          s[j] = ":" /\ \A k \in 1..(j-1) : s[k] # ":", Len(s))
    ELSE s

normalize_urn(urn_or_slug) ==
    LET s == LStripSlash(urn_or_slug) IN
    IF \E i \in 1..Len(s) : s[i] = ":" THEN AfterLastColon(s)
    ELSE IF URN_PREFIX # <<>> /\ StartsWith(s, URN_PREFIX)
         THEN SubSeq(s, Len(URN_PREFIX) + 1, Len(s))
         ELSE s

----------------------------------------------------------------------------
(* Values and mappings *)

Str(s) == [str |-> s]
List(w) == [list |-> w]
None == [none |-> TRUE]

EmptyMap == <<>>

\* dict with key k set to v
Put(m, k, v) == [x \in DOMAIN m \cup {k} |-> IF x = k THEN v ELSE m[x]]

----------------------------------------------------------------------------
(* The Article schema *)

\* keys of data that the model tracks
Keys == {"urn", "id", "title", "authors"}

\* the Field descriptors of Article among Keys (urn is a property, not a Field)
Fields == {"id", "title", "authors"}

\* a schema in which no field is read-only
NoReadOnlyFields == {}

ReadOnlyFields == {"id"}

FactoryFields == {"authors"}

\* Field.default
Default(f) == IF f = "title" THEN Str(<<>>) ELSE None

\* keys save() never sends
ServerManaged == {"id", "creator", "created_at", "updated_at"}

----------------------------------------------------------------------------
(* Transport *)

Old == <<"O","l","d">>
New == <<"N","e","w">>
Fresh == <<"F","r","e","s","h">>
Id123 == <<"1","2","3">>

\* what the server holds for each key
ServerValue(k) ==
    CASE k = "urn"     -> Str(OneUrn)
      [] k = "id"      -> Str(Id123)
      [] k = "title"   -> Str(Fresh)
      [] k = "authors" -> List("server")

FullPayload == [k \in Keys |-> ServerValue(k)]

Raises == [ok |-> FALSE, body |-> EmptyMap]

\* a transport call raises, or returns a body: a payload (any mapping over
\* Keys) in the {"result": ...} envelope, or a bare payload
Outcomes ==
    { Raises }
      \cup { [ok |-> TRUE, body |-> [result |-> [k \in D |-> ServerValue(k)]]] :
               D \in SUBSET Keys }
      \cup { [ok |-> TRUE, body |-> b] :
               b \in { FullPayload, [k \in {"title"} |-> ServerValue(k)] } }

\* the replies whose body the caller does not look at, or only hands on
PlainOutcomes == { Raises, [ok |-> TRUE, body |-> [result |-> FullPayload]] }

\* _extract_result that hands back the body with its envelope
KeepEnvelope(payload) == payload

\* BaseEntity._extract_result
ExtractResult(payload) ==
    IF "result" \in DOMAIN payload THEN payload["result"] ELSE payload

Call(method, path, body, o) ==
    [method |-> method, path |-> path, body |-> body, ok |-> o.ok, reply |-> o.body]

\* f"{ENDPOINT}/{urn}"
EntityPath(urn) == ENDPOINT \o Slash \o urn

----------------------------------------------------------------------------
(* Results of the methods: the entity after the call, the calls made, whether
   the method returned ("ok") or what it raised, what it returned, and whether
   a default factory was called *)

Result(d, dy, cs, res, ret) ==
    [data |-> d, dirty |-> dy, calls |-> cs, res |-> res, ret |-> ret, made |-> FALSE]

\* BaseEntity.urn is readable
HasUrn(d) == "urn" \in DOMAIN d

\* BaseEntity.refresh
RefreshResult(d, dy, o) ==
    IF ~HasUrn(d) THEN Result(d, dy, <<>>, "KeyError", None)
    ELSE LET c == Call("GET", EntityPath(d["urn"].str), EmptyMap, o) IN
         IF ~o.ok THEN Result(d, dy, <<c>>, "TransportError", None)
         ELSE Result(ExtractResult(o.body), dy, <<c>>, "ok", None)

\* SaveKeys that reads the dirty set whatever only_dirty says
SaveKeysDirtyFirst(d, dy, only_dirty) ==
    IF dy # {} THEN dy \ ServerManaged
    ELSE DOMAIN d \ ServerManaged

\* SaveKeys without the exclusion of the server-managed keys
SaveKeysUnfiltered(d, dy, only_dirty) ==
    IF only_dirty /\ dy # {} THEN dy ELSE DOMAIN d

\* the keys save() reads to build the body
SaveKeys(d, dy, only_dirty) ==
    IF only_dirty /\ dy # {} THEN dy \ ServerManaged
    ELSE DOMAIN d \ ServerManaged

\* SaveBody that sends every field of data whatever the dirty set holds
SaveBodyAll(d, dy, only_dirty) ==
    [k \in DOMAIN d \ ServerManaged |-> d[k]]

\* the body save() builds (when every key it reads is in data)
SaveBody(d, dy, only_dirty) ==
    [k \in SaveKeys(d, dy, only_dirty) |-> d[k]]

\* a save that forgets to clear the dirty set
DirtyKept(dy) == dy

\* the dirty set after a successful PATCH
DirtyAfterPatch(dy) == {}

\* BaseEntity.save
SaveResult(d, dy, only_dirty, o) ==
    IF ~(SaveKeys(d, dy, only_dirty) \subseteq DOMAIN d)
    THEN Result(d, dy, <<>>, "KeyError", None)
    ELSE LET body == SaveBody(d, dy, only_dirty) IN
         IF DOMAIN body = {} THEN Result(d, dy, <<>>, "ok", None)
         ELSE IF ~HasUrn(d) THEN Result(d, dy, <<>>, "KeyError", None)
         ELSE LET c == Call("PATCH", EntityPath(d["urn"].str), body, o) IN
              IF ~o.ok THEN Result(d, dy, <<c>>, "TransportError", None)
              ELSE Result(ExtractResult(o.body), DirtyAfterPatch(dy), <<c>>, "ok", None)

\* a fetch for every key that data lacks, whether or not the entity is lazy
NeedsFetchWhenAbsent(d, key) == key # "urn" /\ key \notin DOMAIN d /\ "urn" \in DOMAIN d

\* Field.__get__ fetches before it resolves the read, when the entity is
\* lazy: data holds the urn and nothing else
NeedsFetch(d, key) == key # "urn" /\ key \notin DOMAIN d /\ DOMAIN d = {"urn"}

\* a read that returns the factory's container without storing it
ResolveWithoutStore(d, dy, key, cs) ==
    IF key \in DOMAIN d THEN Result(d, dy, cs, "ok", d[key])
    ELSE IF key \in FactoryFields
         THEN [Result(d, dy, cs, "ok", List("factory")) EXCEPT !.made = TRUE]
         ELSE Result(d, dy, cs, "ok", Default(key))

\* Field.__get__ once any fetch is done: the stored value, else the factory's
\* fresh container stored under the key, else the default
Resolve(d, dy, key, cs) ==
    IF key \in DOMAIN d THEN Result(d, dy, cs, "ok", d[key])
    ELSE IF key \in FactoryFields
         THEN [Result(Put(d, key, List("factory")), dy, cs, "ok", List("factory"))
                 EXCEPT !.made = TRUE]
         ELSE Result(d, dy, cs, "ok", Default(key))

\* Field.__get__
GetResult(d, dy, key, o) ==
    IF NeedsFetch(d, key)
    THEN LET r == RefreshResult(d, dy, o) IN
         IF r.res # "ok" THEN r
         ELSE Resolve(r.data, r.dirty, key, r.calls)
    ELSE Resolve(d, dy, key, <<>>)

\* a write that takes its dirty mark back when the PATCH fails
SetUnmarkingOnFailure(d, dy, s, key, value, o) ==
    IF key \in ReadOnlyFields THEN Result(d, dy, <<>>, "AttributeError", None)
    ELSE LET d1 == Put(d, key, value)
             dy1 == dy \cup {key}
             r == SaveResult(d1, dy1, TRUE, o)
         IN  IF s THEN IF r.res = "TransportError" THEN [r EXCEPT !.dirty = dy] ELSE r
             ELSE Result(d1, dy1, <<>>, "ok", None)

\* Field.__set__
SetResult(d, dy, s, key, value, o) ==
    IF key \in ReadOnlyFields THEN Result(d, dy, <<>>, "AttributeError", None)
    ELSE LET d1 == Put(d, key, value)
             dy1 == dy \cup {key}
         IN  IF s THEN SaveResult(d1, dy1, TRUE, o)
             ELSE Result(d1, dy1, <<>>, "ok", None)

\* BaseEntity.delete
DeleteResult(d, dy, o) ==
    IF ~HasUrn(d) THEN Result(d, dy, <<>>, "KeyError", None)
    ELSE LET c == Call("DELETE", EntityPath(d["urn"].str), EmptyMap, o) IN
         IF ~o.ok THEN Result(d, dy, <<c>>, "TransportError", None)
         ELSE Result(d, dy, <<c>>, "ok", None)

\* BaseEntity.get, as enhance_self calls it: the call and the entity it returns
FetchEntity(urn, o) ==
    [call |-> Call("GET", EntityPath(normalize_urn(urn)), EmptyMap, o),
     ok |-> o.ok,
     entity |-> IF o.ok THEN [entity |-> ExtractResult(o.body)] ELSE None]

\* BaseEntity.enhance_self
EnhanceSelfResult(d, dy, o1, o2) ==
    IF ~HasUrn(d) THEN Result(d, dy, <<>>, "KeyError", None)
    ELSE LET c1 == Call("PATCH", EntityPath(d["urn"].str) \o <<"/","e","n","h","a","n","c","e">>,
                        [k \in {"agent"} |-> Str(<<"a","g","e","n","t">>)], o1)
         IN
         IF ~o1.ok THEN Result(d, dy, <<c1>>, "TransportError", None)
         ELSE LET d1 == ExtractResult(o1.body) IN
              IF ~HasUrn(d1) THEN Result(d1, {}, <<c1>>, "KeyError", None)
              ELSE LET g == FetchEntity(d1["urn"].str, o2) IN
                   IF ~g.ok THEN Result(d1, {}, <<c1, g.call>>, "TransportError", None)
                   ELSE Result(d1, {}, <<c1, g.call>>, "ok", g.entity)

----------------------------------------------------------------------------
(* History of the pending writes: the values written to each field since the
   dirty set was last cleared, whether data still holds them (pure), and the
   fields among them whose synced write saw its PATCH fail (failed) *)

NoWrites == [writes |-> EmptyMap, pure |-> TRUE, failed |-> {}]

\* the first call was a PATCH and the server accepted it
PatchOk(r) == r.calls # <<>> /\ r.calls[1].method = "PATCH" /\ r.calls[1].ok

HistAfterSave(h, r) == IF PatchOk(r) THEN NoWrites ELSE h

\* after a call whose first request was a GET that the server answered
HistAfterFetch(h, r) ==
    IF r.calls # <<>> /\ r.calls[1].method = "GET" /\ r.calls[1].ok THEN [h EXCEPT !.pure = h.pure /\ h.writes = EmptyMap] ELSE h

----------------------------------------------------------------------------
(* State machine *)

Op(name, key, value, only_dirty, r) ==
    [op |-> name, key |-> key, value |-> value, only_dirty |-> only_dirty,
     res |-> r.res, ret |-> r.ret, made |-> r.made]

\* an entity is constructed with data that holds the urn and any of the
\* other keys
Init ==
    /\ data \in { [k \in D |-> IF k = "urn" THEN Str(OneUrn)
                              ELSE IF k = "id" THEN Str(Id123)
                              ELSE IF k = "title" THEN Str(Old)
                              ELSE List("server")] :
                     D \in { E \in SUBSET Keys : "urn" \in E } }
    /\ dirty \in SUBSET (ServerManaged \cap DOMAIN data)
    /\ sync \in BOOLEAN
    /\ calls = <<>>
    /\ hist = NoWrites
    /\ last = Op("init", "", None, FALSE, Result(data, dirty, <<>>, "ok", None))
    /\ urns = None
    /\ index = None
    /\ profile = None
    /\ member = None
    /\ response = None
    /\ client = None
    /\ threads = None

\* the transport answers only when it is called
Answers(probe, outcomes) == IF probe.calls = <<>> THEN { Raises } ELSE outcomes

Apply(r) ==
    /\ data' = r.data
    /\ dirty' = r.dirty
    /\ calls' = r.calls
    /\ UNCHANGED <<proxyVars, profile, otherVars>>

\* entity.<field>
ReadField ==
    \E key \in Fields :
      \E o \in Answers(GetResult(data, dirty, key, Raises), Outcomes) :
        LET r == GetResult(data, dirty, key, o) IN
        /\ Apply(r)
        /\ last' = Op("read", key, None, FALSE, r)
        /\ hist' = HistAfterFetch(hist, r)
        /\ UNCHANGED sync

\* entity.urn
ReadUrn ==
    LET r == IF HasUrn(data)
             THEN Result(data, dirty, <<>>, "ok", data["urn"])
             ELSE Result(data, dirty, <<>>, "KeyError", None)
    IN  /\ Apply(r)
        /\ last' = Op("urn", "urn", None, FALSE, r)
        /\ UNCHANGED <<sync, hist>>

\* entity.<field> = value, for the values a caller assigns
WriteField ==
    \E key \in Fields :
      \E value \in IF key = "authors" THEN {List("caller")}
                    ELSE IF key = "id" THEN {Str(Id123)}
                    ELSE {Str(Old), Str(New)} :
      \E o \in Answers(SetResult(data, dirty, sync, key, value, Raises), Outcomes) :
        LET r == SetResult(data, dirty, sync, key, value, o) IN
        /\ Apply(r)
        /\ last' = Op("write", key, value, FALSE, r)
        /\ hist' = IF r.res = "AttributeError" THEN hist
                    ELSE IF PatchOk(r) THEN NoWrites
                    ELSE [hist EXCEPT !.writes = Put(hist.writes, key, value),
                                      !.failed = IF r.calls # <<>> THEN @ \cup {key}
                                                 ELSE @]
        /\ UNCHANGED sync

\* entity.save(only_dirty=...)
Save ==
    \E only_dirty \in BOOLEAN :
      \E o \in Answers(SaveResult(data, dirty, only_dirty, Raises), Outcomes) :
        LET r == SaveResult(data, dirty, only_dirty, o) IN
        /\ Apply(r)
        /\ last' = Op("save", "", None, only_dirty, r)
        /\ hist' = HistAfterSave(hist, r)
        /\ UNCHANGED sync

\* entity.refresh()
Refresh ==
    \E o \in Answers(RefreshResult(data, dirty, Raises), Outcomes) :
        LET r == RefreshResult(data, dirty, o) IN
        /\ Apply(r)
        /\ last' = Op("refresh", "", None, FALSE, r)
        /\ hist' = HistAfterFetch(hist, r)
        /\ UNCHANGED sync

\* entity.delete()
Delete ==
    \E o \in Answers(DeleteResult(data, dirty, Raises), PlainOutcomes) :
        LET r == DeleteResult(data, dirty, o) IN
        /\ Apply(r)
        /\ last' = Op("delete", "", None, FALSE, r)
        /\ UNCHANGED <<sync, hist>>

\* entity.enhance_self(agent=...)
EnhanceSelf ==
    \E o1 \in Answers(EnhanceSelfResult(data, dirty, Raises, Raises), Outcomes) :
      \E o2 \in Answers(IF o1.ok /\ HasUrn(ExtractResult(o1.body))
                         THEN EnhanceSelfResult(data, dirty, o1, Raises)
                         ELSE Result(data, dirty, <<>>, "ok", None), PlainOutcomes) :
        LET r == EnhanceSelfResult(data, dirty, o1, o2) IN
        /\ Apply(r)
        /\ last' = Op("enhance_self", "", None, FALSE, r)
        /\ hist' = HistAfterSave(hist, r)
        /\ UNCHANGED sync

\* entity.sync = b
SetSync ==
    \E b \in BOOLEAN :
        /\ sync' = b
        /\ calls' = <<>>
        /\ last' = Op("set_sync", "", None, FALSE, Result(data, dirty, <<>>, "ok", None))
        /\ UNCHANGED <<data, dirty, hist, proxyVars, profile, otherVars>>

Next ==
    \/ ReadField
    \/ ReadUrn
    \/ WriteField
    \/ Save
    \/ Refresh
    \/ Delete
    \/ EnhanceSelf
    \/ SetSync

Spec == Init /\ [][Next]_vars

----------------------------------------------------------------------------
(* Collection proxy (BaseCollectionProxy, as ArticlesProxy).  A list is the
   record [items |-> sequence], so that it compares with None; an identifier
   in a JSON list is Str(urn), an entity payload in a list is a mapping with
   the key urn.  The cache _urns is None or the list of urns. *)

DEFAULT_PAGE_SIZE == 100

\* longest page the list endpoint answers with
MaxPage == 2

AlphaSlug == <<"a","l","p","h","a">>
BetaSlug == <<"b","e","t","a">>
AlphabetSlug == <<"a","l","p","h","a","b","e","t">>
AlphSlug == <<"a","l","p","h">>

UrnOf(slug) == URN_PREFIX \o slug

JsonList(items) == [items |-> items]

\* the elements of a list
Elems(l) == { l.items[i] : i \in 1..Len(l.items) }

\* the articles the list endpoint knows, in its order
Listing == <<UrnOf(AlphaSlug), UrnOf(AlphabetSlug), UrnOf(BetaSlug)>>

\* pages of the list endpoint: any run of the listing, up to MaxPage long
Pages ==
    { SubSeq(Listing, i, j) : i \in 1..Len(Listing), j \in 0..Len(Listing) } \cap
    UNION { [1..n -> Elems(JsonList(Listing))] : n \in 0..MaxPage }

IsJsonList(v) == "items" \in DOMAIN v

IsJsonStr(v) == "str" \in DOMAIN v

\* a page as the list endpoint sends it: identifiers, or payloads with an urn
UrnItems(p) == JsonList([i \in 1..Len(p) |-> Str(p[i])])
DictItems(p) == JsonList([i \in 1..Len(p) |-> [urn |-> Str(p[i])]])

\* replies of the list endpoint: it raises, answers with a page in either
\* form, or with something that is not a list
ListOutcomes ==
    { Raises }
      \cup { [ok |-> TRUE, body |-> [result |-> UrnItems(p)]] : p \in Pages }
      \cup { [ok |-> TRUE, body |-> [result |-> DictItems(p)]] : p \in Pages }
      \cup { [ok |-> TRUE, body |-> [result |-> [total |-> Str(Id123)]]] }

\* BaseCollectionProxy._parse_list_result: what it raises or "ok", the list
\* it returns (items), and that list with each string as its characters
\* (urns).  Only the first element of a list is looked at; the comprehension
\* over a list of mappings stops at the first element it cannot subscript.
ParseListResult(payload) ==
    LET result == IF "result" \in DOMAIN payload THEN payload["result"] ELSE payload
        IsDict(v) == DOMAIN v \cap {"str", "int", "items", "none"} = {}
        Parsed(res, its) ==
            [ok |-> res = "ok", res |-> res, items |-> its,
             urns |-> [i \in 1..Len(its) |->
                         IF IsJsonStr(its[i]) THEN its[i].str ELSE its[i]]]
        bad == { i \in 1..Len(result.items) :
                   ~IsDict(result.items[i]) \/ "urn" \notin DOMAIN result.items[i] }
        first == CHOOSE i \in bad : \A j \in bad : i <= j
    IN  IF IsJsonList(payload) THEN Parsed("AttributeError", <<>>)
        ELSE IF IsJsonList(result) /\ (result.items = <<>> \/ IsJsonStr(result.items[1]))
        THEN Parsed("ok", result.items)
        ELSE IF IsJsonList(result) /\ IsDict(result.items[1])
        THEN IF bad = {}
             THEN Parsed("ok", [i \in 1..Len(result.items) |-> result.items[i]["urn"]])
             ELSE IF IsDict(result.items[first]) THEN Parsed("KeyError", <<>>)
             ELSE Parsed("TypeError", <<>>)
        ELSE Parsed("ValueError", <<>>)

\* what a method of the proxy leaves: the cache, the calls made, whether it
\* returned ("ok") or what it raised, and what it returned
ProxyResult(us, cs, res, ret) == [urns |-> us, calls |-> cs, res |-> res, ret |-> ret]

\* BaseCollectionProxy._fetch_urns
FetchUrns(limit, offset, o) ==
    LET c == Call("GET", ENDPOINT, [limit |-> limit, offset |-> offset], o) IN
    IF ~o.ok THEN [call |-> c, res |-> "TransportError", urns |-> <<>>]
    ELSE LET parsed == ParseListResult(o.body) IN
         IF parsed.ok THEN [call |-> c, res |-> "ok", urns |-> parsed.urns]
         ELSE [call |-> c, res |-> parsed.res, urns |-> <<>>]

\* _ensure_index that fetches again when the cached page is empty
EnsureIndexUnlessEmpty(us, o) ==
    IF us # None /\ us # JsonList(<<>>) THEN ProxyResult(us, <<>>, "ok", None)
    ELSE LET f == FetchUrns(DEFAULT_PAGE_SIZE, 0, o) IN
         IF f.res = "ok" THEN ProxyResult(JsonList(f.urns), <<f.call>>, "ok", None)
         ELSE ProxyResult(us, <<f.call>>, f.res, None)

\* BaseCollectionProxy._ensure_index
EnsureIndex(us, o) ==
    IF us # None THEN ProxyResult(us, <<>>, "ok", None)
    ELSE LET f == FetchUrns(DEFAULT_PAGE_SIZE, 0, o) IN
         IF f.res = "ok" THEN ProxyResult(JsonList(f.urns), <<f.call>>, "ok", None)
         ELSE ProxyResult(us, <<f.call>>, f.res, None)

\* BaseCollectionProxy._get_entity(urn, lazy=True)
LazyEntity(urn) ==
    LET u == LStripSlash(urn) IN
    [entity |-> [k \in {"urn"} |-> Str(IF StartsWith(u, URN_PREFIX) THEN u
                                       ELSE URN_PREFIX \o u)]]

\* BaseCollectionProxy._get_entity(urn): the call and the entity it returns.
\* The entity endpoint raises for the resources in down, and answers for any
\* other slug with that resource's payload.
GetEntity(urn, down) ==
    LET slug == normalize_urn(LStripSlash(urn)) IN
    FetchEntity(LStripSlash(urn),
                IF slug \in down THEN Raises
                ELSE [ok |-> TRUE,
                      body |-> [result |-> [k \in {"urn", "title"} |->
                                  IF k = "urn" THEN Str(UrnOf(slug)) ELSE Str(Fresh)]]])

Num(n) == [int |-> n]

\* a len that reads the cache without ensuring the index
LenWithoutIndex(us, o) ==
    ProxyResult(us, <<>>, "ok", Num(IF us = None THEN 0 ELSE Len(us.items)))

\* BaseCollectionProxy.__len__
LenResult(us, o) ==
    LET e == EnsureIndex(us, o) IN
    IF e.res # "ok" THEN e
    ELSE ProxyResult(e.urns, e.calls, "ok", Num(Len(e.urns.items)))

RECURSIVE FetchEach(_, _)
\* one _get_entity per urn, in order, up to the first that raises
FetchEach(us, down) ==
    IF us = <<>> THEN [calls |-> <<>>, ok |-> TRUE, entities |-> <<>>]
    ELSE LET g == GetEntity(Head(us), down) IN
         IF ~g.ok THEN [calls |-> <<g.call>>, ok |-> FALSE, entities |-> <<>>]
         ELSE LET rest == FetchEach(Tail(us), down) IN
              [calls |-> <<g.call>> \o rest.calls, ok |-> rest.ok,
               entities |-> <<g.entity>> \o rest.entities]

\* BaseCollectionProxy.__iter__, run to its end
IterResult(us, o, down) ==
    LET e == EnsureIndex(us, o) IN
    IF e.res # "ok" THEN e
    ELSE LET f == FetchEach(e.urns.items, down) IN
         IF ~f.ok THEN ProxyResult(e.urns, e.calls \o f.calls, "TransportError", None)
         ELSE ProxyResult(e.urns, e.calls \o f.calls, "ok", JsonList(f.entities))

\* an integer subscript that only counts from the front
PositionFromFront(n, key) == IF key >= 0 /\ key < n THEN key + 1 ELSE 0

\* list subscript with an int: the position (from 1) key stands for in a list
\* of n elements, 0 when it is out of range
Position(n, key) ==
    IF key >= 0 /\ key < n THEN key + 1
    ELSE IF key < 0 /\ key >= -n THEN n + key + 1
    ELSE 0

\* BaseCollectionProxy.__getitem__ with an int
GetIndexResult(us, key, o, down) ==
    LET e == EnsureIndex(us, o) IN
    IF e.res # "ok" THEN e
    ELSE LET i == Position(Len(e.urns.items), key) IN
         IF i = 0 THEN ProxyResult(e.urns, e.calls, "IndexError", None)
         ELSE LET g == GetEntity(e.urns.items[i], down) IN
              IF ~g.ok THEN ProxyResult(e.urns, e.calls \o <<g.call>>, "TransportError", None)
              ELSE ProxyResult(e.urns, e.calls \o <<g.call>>, "ok", g.entity)

\* x or d, for an int or None
OrElse(x, d) == IF x = None \/ x = Num(0) THEN d ELSE x.int

\* a slice that reads the first page from the cache once it is there
GetSliceFromCache(us, start, stop, step, o) ==
    IF OrElse(step, 1) # 1 THEN ProxyResult(us, <<>>, "ValueError", None)
    ELSE IF stop = None THEN ProxyResult(us, <<>>, "ValueError", None)
    ELSE LET e == EnsureIndex(us, o) IN
         IF e.res # "ok" THEN e
         ELSE ProxyResult(e.urns, e.calls, "ok",
                JsonList([i \in 1..Len(e.urns.items) |-> LazyEntity(e.urns.items[i])]))

\* BaseCollectionProxy.__getitem__ with a slice
GetSliceResult(us, start, stop, step, o) ==
    IF OrElse(step, 1) # 1 THEN ProxyResult(us, <<>>, "ValueError", None)
    ELSE IF stop = None THEN ProxyResult(us, <<>>, "ValueError", None)
    ELSE LET offset == OrElse(start, 0)
             limit == IF stop.int - offset > 0 THEN stop.int - offset ELSE 0
         IN
         IF limit = 0 THEN ProxyResult(us, <<>>, "ok", JsonList(<<>>))
         ELSE LET f == FetchUrns(limit, offset, o) IN
              IF f.res # "ok" THEN ProxyResult(us, <<f.call>>, f.res, None)
              ELSE ProxyResult(us, <<f.call>>, "ok",
                     JsonList([i \in 1..Len(f.urns) |-> LazyEntity(f.urns[i])]))

\* a string lookup that fails locally when the key is not in the cache
GetKeyCachedOnly(us, key, o, down) ==
    LET k == LStripSlash(key)
        e == EnsureIndex(us, o)
        full == IF StartsWith(k, URN_PREFIX) THEN k ELSE URN_PREFIX \o k
    IN  IF e.res # "ok" THEN e
        ELSE IF full \notin Elems(e.urns) THEN ProxyResult(e.urns, e.calls, "KeyError", None)
        ELSE LET g == GetEntity(full, down) IN
             IF ~g.ok THEN ProxyResult(e.urns, e.calls \o <<g.call>>, "TransportError", None)
             ELSE ProxyResult(e.urns, e.calls \o <<g.call>>, "ok", g.entity)

\* BaseCollectionProxy.__getitem__ with a str
GetKeyResult(us, key, o, down) ==
    LET k == LStripSlash(key)
        e == EnsureIndex(us, o)
    IN  IF e.res # "ok" THEN e
        ELSE LET full == URN_PREFIX \o k
                 target == IF StartsWith(k, URN_PREFIX) THEN k
                           ELSE IF e.urns # None /\ full \in Elems(e.urns) THEN full
                           ELSE k
                 g == GetEntity(target, down)
             IN  IF ~g.ok THEN ProxyResult(e.urns, e.calls \o <<g.call>>, "TransportError", None)
                 ELSE ProxyResult(e.urns, e.calls \o <<g.call>>, "ok", g.entity)

\* replies to the POST that creates or enhances the article slug: it raises,
\* or answers with the article's payload, or with a payload that has no urn
CreateOutcomes(slug) ==
    { Raises,
      [ok |-> TRUE,
       body |-> [result |-> [k \in {"urn", "title"} |->
                   IF k = "urn" THEN Str(UrnOf(slug)) ELSE Str(New)]]],
      [ok |-> TRUE, body |-> [result |-> [k \in {"title"} |-> Str(New)]]] }

\* BaseEntity.create: the call and the entity it returns
EntityCreate(urn, o) ==
    [call |-> Call("POST", ENDPOINT,
                   [k \in {"urn", "title"} |->
                      IF k = "urn" THEN Str(normalize_urn(urn)) ELSE Str(New)], o),
     ok |-> o.ok,
     entity |-> IF o.ok THEN [entity |-> ExtractResult(o.body)] ELSE None]

\* BaseEntity.enhance: the call and the entity it returns
EntityEnhance(urn, o) ==
    [call |-> Call("POST", ENDPOINT \o Slash \o normalize_urn(urn) \o <<"/","e","n","h","a","n","c","e">>,
                   [k \in {"agent"} |-> Str(<<"a","g","e","n","t">>)], o),
     ok |-> o.ok,
     entity |-> IF o.ok THEN [entity |-> ExtractResult(o.body)] ELSE None]

\* a cache that grows by the urn whether or not it holds it
AppendedAlways(us, full_urn) ==
    IF us = None THEN us ELSE JsonList(Append(us.items, full_urn))

\* the cache after create or enhance has seen the entity's urn
Appended(us, full_urn) ==
    IF us = None THEN us
    ELSE IF full_urn \in Elems(us) THEN us
    ELSE JsonList(Append(us.items, full_urn))

\* what create and enhance do with the entity they got
KeepInSync(us, made) ==
    IF ~made.ok THEN ProxyResult(us, <<made.call>>, "TransportError", None)
    ELSE IF us = None THEN ProxyResult(us, <<made.call>>, "ok", made.entity)
    ELSE IF ~HasUrn(made.entity.entity) THEN ProxyResult(us, <<made.call>>, "KeyError", None)
    ELSE ProxyResult(Appended(us, made.entity.entity["urn"].str), <<made.call>>,
                     "ok", made.entity)

\* longest list of results the search endpoint answers with
MaxResults == 2

\* replies of the search endpoint; the items of a search result are a
\* payload with its urn, a bare identifier, a mapping without urn
SearchOutcomes ==
    LET SearchItems ==
          { [k \in {"urn", "title"} |->
               IF k = "urn" THEN Str(UrnOf(AlphaSlug)) ELSE Str(Fresh)],
            Str(UrnOf(BetaSlug)),
            [k \in {"title"} |-> Str(Fresh)] }
    IN  { Raises, [ok |-> TRUE, body |-> [total |-> Str(Id123)]] }
          \cup { [ok |-> TRUE, body |-> [result |-> [results |-> JsonList(items)]]] :
                   items \in UNION { [1..n -> SearchItems] : n \in 0..MaxResults } }

RECURSIVE SearchEachFetching(_, _)
\* a loop that resolves every item that names an urn by a fetch
SearchEachFetching(items, down) ==
    IF items = <<>> THEN [calls |-> <<>>, ok |-> TRUE, entities |-> <<>>]
    ELSE LET item == Head(items) IN
         IF IsJsonStr(item) \/ "urn" \in DOMAIN item
         THEN LET g == GetEntity(IF IsJsonStr(item) THEN item.str ELSE item["urn"].str, down) IN
              IF ~g.ok THEN [calls |-> <<g.call>>, ok |-> FALSE, entities |-> <<>>]
              ELSE LET rest == SearchEachFetching(Tail(items), down) IN
                   [calls |-> <<g.call>> \o rest.calls, ok |-> rest.ok,
                    entities |-> <<g.entity>> \o rest.entities]
         ELSE SearchEachFetching(Tail(items), down)

RECURSIVE SearchEach(_, _)
\* the loop of search over the result items, up to the first fetch that raises
SearchEach(items, down) ==
    IF items = <<>> THEN [calls |-> <<>>, ok |-> TRUE, entities |-> <<>>]
    ELSE LET item == Head(items) IN
         IF ~IsJsonStr(item) /\ "urn" \in DOMAIN item
         THEN LET rest == SearchEach(Tail(items), down) IN
              [calls |-> rest.calls, ok |-> rest.ok,
               entities |-> <<[entity |-> item]>> \o rest.entities]
         ELSE IF IsJsonStr(item)
         THEN LET g == GetEntity(item.str, down) IN
              IF ~g.ok THEN [calls |-> <<g.call>>, ok |-> FALSE, entities |-> <<>>]
              ELSE LET rest == SearchEach(Tail(items), down) IN
                   [calls |-> <<g.call>> \o rest.calls, ok |-> rest.ok,
                    entities |-> <<g.entity>> \o rest.entities]
         ELSE SearchEach(Tail(items), down)

\* BaseCollectionProxy.search
SearchResult(us, q, o, down) ==
    LET c == Call("POST", ENDPOINT \o <<"/","s","e","a","r","c","h">>,
                  [k \in {"q", "limit", "offset"} |->
                     IF k = "q" THEN Str(q) ELSE IF k = "limit" THEN Num(10) ELSE Num(0)], o)
    IN  IF ~o.ok THEN ProxyResult(us, <<c>>, "TransportError", None)
        ELSE LET results == IF "result" \in DOMAIN o.body
                                 /\ "results" \in DOMAIN o.body["result"]
                            THEN o.body["result"]["results"].items ELSE <<>>
                 f == SearchEach(results, down)
             IN  IF ~f.ok THEN ProxyResult(us, <<c>> \o f.calls, "TransportError", None)
                 ELSE ProxyResult(us, <<c>> \o f.calls, "ok", JsonList(f.entities))

----------------------------------------------------------------------------
(* History of the cache: how many fetches for the index succeeded, the page
   the first of them brought, and the urns create and enhance appended *)

\* a GET of the list endpoint for the index
IsIndexFetch(c) ==
    /\ c.method = "GET"
    /\ c.path = ENDPOINT
    /\ c.body = [limit |-> DEFAULT_PAGE_SIZE, offset |-> 0]

IndexAfter(idx, us, r) ==
    LET cs == r.calls
        \* the index fetches among the calls that brought a page
        got == { i \in 1..Len(cs) :
                   IsIndexFetch(cs[i]) /\ cs[i].ok /\ ParseListResult(cs[i].reply).ok }
        n == idx.fetched + Cardinality(got)
    IN  [fetched |-> IF n > 2 THEN 2 ELSE n,
         page |-> IF idx.page = None /\ got # {}
                  THEN JsonList(ParseListResult(
                         r.calls[CHOOSE i \in got : \A j \in got : i <= j].reply).urns)
                  ELSE idx.page,
         added |-> IF us # None /\ r.urns # None /\ Len(r.urns.items) > Len(us.items)
                   THEN idx.added \o SubSeq(r.urns.items, Len(us.items) + 1, Len(r.urns.items))
                   ELSE idx.added]

----------------------------------------------------------------------------
(* State machine of the collection proxy *)

\* largest integer subscript tried, to either side
MaxIndex == 3

ProxyOp(name, args, r) == [op |-> name, args |-> args, res |-> r.res, ret |-> r.ret]

ProxyInit ==
    /\ urns = None
    /\ index = [fetched |-> 0, page |-> None, added |-> <<>>]
    /\ calls = <<>>
    /\ last = ProxyOp("init", None, ProxyResult(None, <<>>, "ok", None))
    /\ data = EmptyMap
    /\ dirty = {}
    /\ sync = TRUE
    /\ hist = NoWrites
    /\ profile = None
    /\ member = None
    /\ response = None
    /\ client = None
    /\ threads = None

\* at most one resource is missing from the entity endpoint
DownSets == { {}, {AlphaSlug}, {BetaSlug} }

ProxyApply(name, args, r) ==
    /\ urns' = r.urns
    /\ calls' = r.calls
    /\ index' = IndexAfter(index, urns, r)
    /\ last' = ProxyOp(name, args, r)
    /\ UNCHANGED <<entityVars, profile, otherVars>>

\* len(proxy)
ProxyLen ==
    \E o \in Answers(LenResult(urns, Raises), ListOutcomes) :
        ProxyApply("len", None, LenResult(urns, o))

\* list(proxy)
ProxyIter ==
    \E o \in Answers(EnsureIndex(urns, Raises), ListOutcomes), down \in DownSets :
        ProxyApply("iter", None, IterResult(urns, o, down))

\* proxy[i]
ProxyGetIndex ==
    \E key \in -MaxIndex..MaxIndex :
      \E o \in Answers(EnsureIndex(urns, Raises), ListOutcomes), down \in DownSets :
        ProxyApply("index", [key |-> key], GetIndexResult(urns, key, o, down))

\* proxy[start:stop:step], for a few bounds and steps; the list endpoint
\* raises, or answers with one of three pages, or with something that is not a
\* list
ProxyGetSlice ==
    \E start \in {None, Num(1)}, stop \in {None, Num(0), Num(3)},
       step \in {None, Num(0), Num(1), Num(2)} :
      \E o \in Answers(GetSliceResult(urns, start, stop, step, Raises),
                       { x \in ListOutcomes :
                           x.ok => \/ ~IsJsonList(x.body["result"])
                                   \/ x.body["result"] = UrnItems(<<>>)
                                   \/ x.body["result"] = UrnItems(SubSeq(Listing, 2, 3))
                                   \/ x.body["result"] = DictItems(SubSeq(Listing, 2, 2)) }) :
        ProxyApply("slice", [start |-> start, stop |-> stop, step |-> step],
                   GetSliceResult(urns, start, stop, step, o))

\* proxy["key"], for a slug, a slug after a slash, full urns, a part of two
\* slugs
ProxyGetKey ==
    \E key \in { AlphaSlug, Slash \o BetaSlug, UrnOf(BetaSlug), UrnOf(<<"n","e","w">>),
                 AlphSlug } :
      \E o \in Answers(EnsureIndex(urns, Raises), ListOutcomes), down \in DownSets :
        ProxyApply("key", [key |-> key], GetKeyResult(urns, key, o, down))

\* proxy.create(urn=..., title=...)
ProxyCreate ==
    \E urn \in {<<"n","e","w">>, UrnOf(AlphaSlug)} :
      \E o \in CreateOutcomes(normalize_urn(urn)) :
        ProxyApply("create", [urn |-> urn], KeepInSync(urns, EntityCreate(urn, o)))

\* proxy.enhance(agent, urn=...)
ProxyEnhance ==
    \E urn \in {AlphabetSlug} :
      \E o \in CreateOutcomes(normalize_urn(urn)) :
        ProxyApply("enhance", [urn |-> urn], KeepInSync(urns, EntityEnhance(urn, o)))

\* proxy.search(q)
ProxySearch ==
    \E o \in SearchOutcomes, down \in DownSets :
        ProxyApply("search", [q |-> AlphSlug], SearchResult(urns, AlphSlug, o, down))

ProxyNext ==
    \/ ProxyLen
    \/ ProxyIter
    \/ ProxyGetIndex
    \/ ProxyGetSlice
    \/ ProxyGetKey
    \/ ProxyCreate
    \/ ProxyEnhance
    \/ ProxySearch

ProxySpec == ProxyInit /\ [][ProxyNext]_vars

----------------------------------------------------------------------------
(* Member profile (HouseholdMemberProfile): a mapping of named properties
   without declared fields, bound to a member by the client and the member's
   id *)

\* "members/member-123/profile"
ProfilePath ==
    <<"m","e","m","b","e","r","s","/">>
      \o <<"m","e","m","b","e","r","-","1","2","3">>
      \o <<"/","p","r","o","f","i","l","e">>

\* the properties written and read
ProfileNames == {"dietary_groups", "properties"}

\* replies of the profile endpoint: it raises, or answers with a payload in
\* the envelope, or with a bare payload
ProfileOutcomes ==
    { Raises }
      \cup { [ok |-> TRUE, body |-> [result |-> m]] : m \in { [n \in D |-> List("updated")] : D \in SUBSET ProfileNames } }
      \cup { [ok |-> TRUE, body |-> [n \in {"dietary_groups"} |-> List("updated")]] }

\* what a method of the profile leaves: _data, _dirty_fields, the calls made,
\* whether it returned ("ok") or what it raised, and what it returned
ProfileResult(d, dy, cs, res, ret) ==
    [data |-> d, dirty |-> dy, calls |-> cs, res |-> res, ret |-> ret]

\* a save that leaves the dirty set as it was
ProfileDirtyKept(dy) == dy

\* the dirty set after a successful PATCH of the profile
ProfileDirtyAfterPatch(dy) == {}

\* the payload save() builds
ProfilePayload(d, dy) == [k \in dy \cap DOMAIN d |-> d[k]]

\* a save that raises on a profile that is not bound
ProfileSaveRaisingUnbound(d, dy, bound, o) ==
    IF ~bound THEN ProfileResult(d, dy, <<>>, "RuntimeError", None)
    ELSE IF dy = {} THEN ProfileResult(d, dy, <<>>, "ok", None)
    ELSE LET c == Call("PATCH", ProfilePath, ProfilePayload(d, dy), o) IN
         IF ~o.ok THEN ProfileResult(d, dy, <<c>>, "TransportError", None)
         ELSE ProfileResult(ExtractResult(o.body), ProfileDirtyAfterPatch(dy), <<c>>, "ok", None)

\* HouseholdMemberProfile.save
ProfileSaveResult(d, dy, bound, o) ==
    IF ~bound THEN ProfileResult(d, dy, <<>>, "ok", None)
    ELSE IF dy = {} THEN ProfileResult(d, dy, <<>>, "ok", None)
    ELSE LET c == Call("PATCH", ProfilePath, ProfilePayload(d, dy), o) IN
         IF ~o.ok THEN ProfileResult(d, dy, <<c>>, "TransportError", None)
         ELSE ProfileResult(ExtractResult(o.body), ProfileDirtyAfterPatch(dy), <<c>>, "ok", None)

\* a write that saves whatever the sync flag says
ProfileSetAlwaysSaving(d, dy, s, bound, name, value, o) ==
    ProfileSaveResult(Put(d, name, value), dy \cup {name}, bound, o)

\* HouseholdMemberProfile.__setattr__ for a public name
ProfileSetResult(d, dy, s, bound, name, value, o) ==
    LET d1 == Put(d, name, value)
        dy1 == dy \cup {name}
    IN  IF s THEN ProfileSaveResult(d1, dy1, bound, o)
        ELSE ProfileResult(d1, dy1, <<>>, "ok", None)

\* a read that stores the default it returns, as a Field with a factory does
ProfileGetStoring(d, dy, name) ==
    IF name \in DOMAIN d THEN ProfileResult(d, dy, <<>>, "ok", d[name])
    ELSE IF name = "dietary_groups"
         THEN ProfileResult(Put(d, name, List("empty")), dy, <<>>, "ok", List("empty"))
    ELSE IF name \in {"nutritional_preferences", "properties"}
         THEN ProfileResult(Put(d, name, [dict |-> "empty"]), dy, <<>>, "ok", [dict |-> "empty"])
    ELSE ProfileResult(d, dy, <<>>, "AttributeError", None)

\* HouseholdMemberProfile.__getattr__ for a public name
ProfileGetResult(d, dy, name) ==
    IF name \in DOMAIN d THEN ProfileResult(d, dy, <<>>, "ok", d[name])
    ELSE IF name = "dietary_groups" THEN ProfileResult(d, dy, <<>>, "ok", List("empty"))
    ELSE IF name \in {"nutritional_preferences", "properties"}
         THEN ProfileResult(d, dy, <<>>, "ok", [dict |-> "empty"])
    ELSE ProfileResult(d, dy, <<>>, "AttributeError", None)

\* HouseholdMemberProfile.refresh
ProfileRefreshResult(d, dy, bound, o) ==
    IF ~bound THEN ProfileResult(d, dy, <<>>, "RuntimeError", None)
    ELSE LET c == Call("GET", ProfilePath, EmptyMap, o) IN
         IF ~o.ok THEN ProfileResult(d, dy, <<c>>, "TransportError", None)
         ELSE ProfileResult(ExtractResult(o.body), {}, <<c>>, "ok", None)

\* a delete that leaves the data, as BaseEntity.delete does
ProfileDeleteKeepingData(d, dy, bound, o) ==
    IF ~bound THEN ProfileResult(d, dy, <<>>, "RuntimeError", None)
    ELSE LET c == Call("DELETE", ProfilePath, EmptyMap, o) IN
         IF ~o.ok THEN ProfileResult(d, dy, <<c>>, "TransportError", None)
         ELSE ProfileResult(d, dy, <<c>>, "ok", None)

\* HouseholdMemberProfile.delete
ProfileDeleteResult(d, dy, bound, o) ==
    IF ~bound THEN ProfileResult(d, dy, <<>>, "RuntimeError", None)
    ELSE LET c == Call("DELETE", ProfilePath, EmptyMap, o) IN
         IF ~o.ok THEN ProfileResult(d, dy, <<c>>, "TransportError", None)
         ELSE ProfileResult(EmptyMap, dy, <<c>>, "ok", None)

----------------------------------------------------------------------------
(* State machine of the member profile *)

ProfileOp(name, args, r) == [op |-> name, args |-> args, res |-> r.res, ret |-> r.ret]

ProfileInit ==
    /\ profile \in [data : { EmptyMap, [n \in {"dietary_groups"} |-> List("old")] }, dirty : { {} },
                    sync : BOOLEAN, bound : BOOLEAN]
    /\ calls = <<>>
    /\ last = ProfileOp("init", None, ProfileResult(EmptyMap, {}, <<>>, "ok", None))
    /\ data = EmptyMap
    /\ dirty = {}
    /\ sync = TRUE
    /\ hist = NoWrites
    /\ urns = None
    /\ index = None
    /\ member = None
    /\ response = None
    /\ client = None
    /\ threads = None

ProfileApply(name, args, r) ==
    /\ profile' = [profile EXCEPT !.data = r.data, !.dirty = r.dirty]
    /\ calls' = r.calls
    /\ last' = ProfileOp(name, args, r)
    /\ UNCHANGED <<entityVars, proxyVars, otherVars>>

\* profile.<name>
ProfileRead ==
    \E name \in ProfileNames \cup {"nutritional_preferences", "notes"} :
        ProfileApply("read", [name |-> name],
                     ProfileGetResult(profile.data, profile.dirty, name))

\* profile.<name> = value
ProfileWrite ==
    \E name \in ProfileNames, value \in {List("vegan"), List("old")} :
      \E o \in Answers(ProfileSetResult(profile.data, profile.dirty, profile.sync,
                                        profile.bound, name, value, Raises),
                       ProfileOutcomes) :
        ProfileApply("write", [name |-> name, value |-> value],
                     ProfileSetResult(profile.data, profile.dirty, profile.sync,
                                      profile.bound, name, value, o))

\* profile.save()
ProfileSave ==
    \E o \in Answers(ProfileSaveResult(profile.data, profile.dirty, profile.bound, Raises),
                     ProfileOutcomes) :
        ProfileApply("save", None,
                     ProfileSaveResult(profile.data, profile.dirty, profile.bound, o))

\* profile.refresh()
ProfileRefresh ==
    \E o \in Answers(ProfileRefreshResult(profile.data, profile.dirty, profile.bound, Raises),
                     ProfileOutcomes) :
        ProfileApply("refresh", None,
                     ProfileRefreshResult(profile.data, profile.dirty, profile.bound, o))

\* profile.delete()
ProfileDelete ==
    \E o \in Answers(ProfileDeleteResult(profile.data, profile.dirty, profile.bound, Raises),
                     PlainOutcomes) :
        ProfileApply("delete", None,
                     ProfileDeleteResult(profile.data, profile.dirty, profile.bound, o))

\* profile._sync = b
ProfileSetSync ==
    \E b \in BOOLEAN :
        /\ profile' = [profile EXCEPT !.sync = b]
        /\ calls' = <<>>
        /\ last' = ProfileOp("set_sync", [value |-> b],
                             ProfileResult(profile.data, profile.dirty, <<>>, "ok", None))
        /\ UNCHANGED <<entityVars, proxyVars, otherVars>>

ProfileNext ==
    \/ ProfileRead
    \/ ProfileWrite
    \/ ProfileSave
    \/ ProfileRefresh
    \/ ProfileDelete
    \/ ProfileSetSync

ProfileSpec == ProfileInit /\ [][ProfileNext]_vars

(***************************************************************************)
(* HouseholdMember (entities/households.py).  The profile object the       *)
(* member holds is [id, data]: id tells one constructed profile object     *)
(* from another.                                                           *)
(***************************************************************************)

\* f"members/{self.id}"
MemberPath(d) == <<"m","e","m","b","e","r","s","/">> \o d["id"].str

\* f"members/{self.id}/profile"
MemberProfilePath(d) == MemberPath(d) \o <<"/","p","r","o","f","i","l","e">>

\* the names a member has
MemberNames == { Str(<<"J","o","h","n">>), Str(<<"J","a","n","e">>) }

\* the member mappings the server answers with
MemberPayloads ==
    { [id |-> Str(<<"m","e","m","b","e","r","-","1","2","3">>), name |-> n] :
        n \in MemberNames }

\* replies of the member endpoint
MemberOutcomes ==
    { Raises }
      \cup { [ok |-> TRUE, body |-> [result |-> m]] : m \in MemberPayloads }
      \cup { [ok |-> TRUE, body |-> m] : m \in MemberPayloads }

\* what a method of the member leaves: _data, _profile, the profiles
\* constructed so far, the calls made, the outcome and the value returned
MemberResult(d, p, n, cs, res, ret) ==
    [data |-> d, prof |-> p, made |-> n, calls |-> cs, res |-> res, ret |-> ret]

\* a profile property that fetches at every access
MemberProfileRefetching(m, o) ==
    IF ~m.bound
    THEN MemberResult(m.data, m.prof, m.made, <<>>, "RuntimeError", None)
    ELSE IF "id" \notin DOMAIN m.data
    THEN MemberResult(m.data, m.prof, m.made, <<>>, "KeyError", None)
    ELSE LET c == Call("GET", MemberProfilePath(m.data), EmptyMap, o)
             pd == IF o.ok THEN ExtractResult(o.body) ELSE EmptyMap
             p == [id |-> m.made + 1, data |-> pd]
         IN  MemberResult(m.data, p, m.made + 1, <<c>>, "ok", Num(p.id))

\* HouseholdMember.profile
MemberProfileResult(m, o) ==
    IF m.prof # None
    THEN MemberResult(m.data, m.prof, m.made, <<>>, "ok", Num(m.prof.id))
    ELSE IF ~m.bound
    THEN MemberResult(m.data, m.prof, m.made, <<>>, "RuntimeError", None)
    ELSE IF "id" \notin DOMAIN m.data
    THEN MemberResult(m.data, m.prof, m.made, <<>>, "KeyError", None)
    ELSE LET c == Call("GET", MemberProfilePath(m.data), EmptyMap, o)
             pd == IF o.ok THEN ExtractResult(o.body) ELSE EmptyMap
             p == [id |-> m.made + 1, data |-> pd]
         IN  MemberResult(m.data, p, m.made + 1, <<c>>, "ok", Num(p.id))

\* HouseholdMember.refresh
MemberRefreshResult(m, o) ==
    IF ~m.bound
    THEN MemberResult(m.data, m.prof, m.made, <<>>, "RuntimeError", None)
    ELSE IF "id" \notin DOMAIN m.data
    THEN MemberResult(m.data, m.prof, m.made, <<>>, "KeyError", None)
    ELSE LET c == Call("GET", MemberPath(m.data), EmptyMap, o) IN
         IF ~o.ok
         THEN MemberResult(m.data, m.prof, m.made, <<c>>, "TransportError", None)
         ELSE MemberResult(ExtractResult(o.body), None, m.made, <<c>>, "ok", None)

\* HouseholdMember.delete
MemberDeleteResult(m, o) ==
    IF ~m.bound
    THEN MemberResult(m.data, m.prof, m.made, <<>>, "RuntimeError", None)
    ELSE IF "id" \notin DOMAIN m.data
    THEN MemberResult(m.data, m.prof, m.made, <<>>, "KeyError", None)
    ELSE LET c == Call("DELETE", MemberPath(m.data), EmptyMap, o) IN
         MemberResult(m.data, m.prof, m.made, <<c>>,
                      IF o.ok THEN "ok" ELSE "TransportError", None)

\* HouseholdMember.name setter, with _sync_field
MemberSetNameResult(m, value, o) ==
    LET d == Put(m.data, "name", value) IN
    IF ~m.bound
    THEN MemberResult(d, m.prof, m.made, <<>>, "ok", None)
    ELSE IF "id" \notin DOMAIN d
    THEN MemberResult(d, m.prof, m.made, <<>>, "KeyError", None)
    ELSE LET c == Call("PATCH", MemberPath(d), [name |-> value], o) IN
         MemberResult(d, m.prof, m.made, <<c>>,
                      IF o.ok THEN "ok" ELSE "TransportError", None)

\* profile objects one member constructs in a run
MaxProfiles == 3

MemberInit ==
    /\ member \in [data : MemberPayloads \cup { EmptyMap }, prof : { None }, made : { 0 },
                   bound : BOOLEAN]
    /\ calls = <<>>
    /\ last = [op |-> "init", args |-> None, res |-> "ok", ret |-> None]
    /\ data = EmptyMap
    /\ dirty = {}
    /\ sync = TRUE
    /\ hist = NoWrites
    /\ urns = None
    /\ index = None
    /\ profile = None
    /\ response = None
    /\ client = None
    /\ threads = None

MemberApply(name, args, r) ==
    /\ member' = [member EXCEPT !.data = r.data, !.prof = r.prof, !.made = r.made]
    /\ calls' = r.calls
    /\ last' = [op |-> name, args |-> args, res |-> r.res, ret |-> r.ret]
    /\ UNCHANGED <<entityVars, proxyVars, profile, response, client, threads>>

\* member.profile
MemberProfile ==
    /\ member.prof = None => member.made < MaxProfiles
    /\ \E o \in Answers(MemberProfileResult(member, Raises), ProfileOutcomes) :
           MemberApply("profile", None, MemberProfileResult(member, o))

\* member.refresh()
MemberRefresh ==
    \E o \in Answers(MemberRefreshResult(member, Raises), MemberOutcomes) :
        MemberApply("refresh", None, MemberRefreshResult(member, o))

\* member.delete()
MemberDelete ==
    \E o \in Answers(MemberDeleteResult(member, Raises), {Raises, [ok |-> TRUE, body |-> EmptyMap]}) :
        MemberApply("delete", None, MemberDeleteResult(member, o))

\* member.name = value
MemberSetName ==
    \E value \in MemberNames :
        \E o \in Answers(MemberSetNameResult(member, value, Raises), MemberOutcomes) :
            MemberApply("set_name", [value |-> value], MemberSetNameResult(member, value, o))

MemberNext ==
    \/ MemberProfile
    \/ MemberRefresh
    \/ MemberDelete
    \/ MemberSetName

MemberSpec == MemberInit /\ [][MemberNext]_vars

(***************************************************************************)
(* The error classifier (exceptions.py).  A response is [status, body];    *)
(* the body is [text |-> TRUE] when response.json() raises, a JsonList     *)
(* when the JSON is not a mapping, and [map |-> m] for a JSON mapping m.   *)
(* A JSON boolean is [bool |-> b], a code [name |-> c].  An error is       *)
(* [cls, status_code, code]; its message is left out.                      *)
(***************************************************************************)

\* _CODE_TO_EXCEPTION
CODE_TO_EXCEPTION ==
    [c \in { "request/invalid", "request/unprocessable", "auth/unauthorized",
             "auth/forbidden", "resource/not_found", "request/not_allowed",
             "resource/conflict", "quota/rate_limited", "server/internal",
             "upstream/bad_gateway", "upstream/unavailable", "upstream/timeout" } |->
       CASE c = "request/invalid"       -> "InvalidError"
         [] c = "request/unprocessable" -> "DataError"
         [] c = "auth/unauthorized"     -> "AuthenticationError"
         [] c = "auth/forbidden"        -> "AuthorizationError"
         [] c = "resource/not_found"    -> "NotFoundError"
         [] c = "request/not_allowed"   -> "NotAllowedError"
         [] c = "resource/conflict"     -> "ConflictError"
         [] c = "quota/rate_limited"    -> "RateLimitError"
         [] c = "server/internal"       -> "InternalError"
         [] c = "upstream/bad_gateway"  -> "BadGatewayError"
         [] c = "upstream/unavailable"  -> "ServiceUnavailableError"
         [] c = "upstream/timeout"      -> "GatewayTimeoutError"]

\* _STATUS_TO_EXCEPTION
STATUS_TO_EXCEPTION ==
    [n \in {400, 401, 403, 404, 405, 409, 422, 429, 500, 502, 503, 504} |->
       CASE n = 400 -> "InvalidError"
         [] n = 401 -> "AuthenticationError"
         [] n = 403 -> "AuthorizationError"
         [] n = 404 -> "NotFoundError"
         [] n = 405 -> "NotAllowedError"
         [] n = 409 -> "ConflictError"
         [] n = 422 -> "DataError"
         [] n = 429 -> "RateLimitError"
         [] n = 500 -> "InternalError"
         [] n = 502 -> "BadGatewayError"
         [] n = 503 -> "ServiceUnavailableError"
         [] n = 504 -> "GatewayTimeoutError"]

\* a choice that looks the status up before the code
PickByStatusFirst(status_code, code) ==
    IF status_code \in DOMAIN STATUS_TO_EXCEPTION THEN STATUS_TO_EXCEPTION[status_code]
    ELSE IF code # None /\ code.name # "" /\ code.name \in DOMAIN CODE_TO_EXCEPTION
    THEN CODE_TO_EXCEPTION[code.name]
    ELSE "APIError"

\* _pick_exception_class
pick_exception_class(status_code, code) ==
    IF code # None /\ code.name # "" /\ code.name \in DOMAIN CODE_TO_EXCEPTION
    THEN CODE_TO_EXCEPTION[code.name]
    ELSE IF status_code \in DOMAIN STATUS_TO_EXCEPTION THEN STATUS_TO_EXCEPTION[status_code]
    ELSE "APIError"

\* a classifier that maps the status of a body without the envelope
ErrorByStatusWithoutEnvelope(r) ==
    IF "text" \in DOMAIN r.body
    THEN [cls |-> pick_exception_class(r.status, None), status_code |-> r.status, code |-> None]
    ELSE IF IsJsonList(r.body)
    THEN [cls |-> "AttributeError", status_code |-> r.status, code |-> None]
    ELSE LET body == r.body.map
             error_block == IF "error" \in DOMAIN body THEN body["error"] ELSE None
             enveloped == /\ "success" \in DOMAIN body /\ body["success"] = [bool |-> FALSE]
                          /\ "dict" \in DOMAIN error_block
             code == IF enveloped /\ "code" \in DOMAIN error_block.dict
                     THEN error_block.dict["code"] ELSE None
         IN  [cls |-> pick_exception_class(r.status, code), status_code |-> r.status,
              code |-> code]

\* error_from_response; cls is AttributeError when the function raises it
\* instead of returning an error
error_from_response(r) ==
    IF "text" \in DOMAIN r.body
    THEN [cls |-> "APIError", status_code |-> r.status, code |-> None]
    ELSE IF IsJsonList(r.body)
    THEN [cls |-> "AttributeError", status_code |-> r.status, code |-> None]
    ELSE LET body == r.body.map
             error_block == IF "error" \in DOMAIN body THEN body["error"] ELSE None
             enveloped == /\ "success" \in DOMAIN body /\ body["success"] = [bool |-> FALSE]
                          /\ "dict" \in DOMAIN error_block
             code == IF "code" \in DOMAIN error_block.dict
                     THEN error_block.dict["code"] ELSE None
         IN  IF ~enveloped
             THEN IF r.status = 422 /\ "detail" \in DOMAIN body
                  THEN [cls |-> "DataError", status_code |-> r.status, code |-> None]
                  ELSE [cls |-> "APIError", status_code |-> r.status, code |-> None]
             ELSE [cls |-> pick_exception_class(r.status, code),
                   status_code |-> r.status, code |-> code]

\* raise_for_api_error: "ok" when it returns, else the class of what it raises
raise_for_api_error(r) ==
    IF "text" \in DOMAIN r.body
    THEN IF r.status >= 400 THEN error_from_response(r).cls ELSE "ok"
    ELSE IF "map" \in DOMAIN r.body /\ "success" \in DOMAIN r.body.map
    THEN IF r.body.map["success"] = [bool |-> TRUE] /\ r.status < 400 THEN "ok"
         ELSE error_from_response(r).cls
    ELSE IF r.status >= 400 THEN error_from_response(r).cls ELSE "ok"

\* the responses classified: six statuses, and bodies that are not JSON, a
\* JSON list, or a mapping with or without success, error (a string, or a
\* mapping with no code, an empty code, a known code or an unknown one) and
\* detail
Responses ==
    LET errors == { Str(<<"b","a","d">>) }
                    \cup { [dict |-> EmptyMap] }
                    \cup { [dict |-> [k \in {"code"} |-> [name |-> c]]] :
                             c \in {"", "resource/conflict", "resource/not_found",
                                    "custom/unknown"} }
        bools == { [bool |-> b] : b \in BOOLEAN }
        maps == UNION { [D -> bools \cup errors \cup {List("detail")}] :
                          D \in SUBSET {"success", "error", "detail"} }
        typed == { b \in maps :
                     /\ "success" \in DOMAIN b => b["success"] \in bools
                     /\ "error" \in DOMAIN b => b["error"] \in errors
                     /\ "detail" \in DOMAIN b => b["detail"] = List("detail") }
    IN  [status : {200, 404, 409, 418, 422, 503},
         body : { [text |-> TRUE], JsonList(<<>>) } \cup { [map |-> b] : b \in typed }]

ClassifyInit ==
    /\ response \in Responses
    /\ calls = <<>>
    /\ last = [op |-> "init", args |-> None, res |-> "ok", ret |-> None]
    /\ data = EmptyMap
    /\ dirty = {}
    /\ sync = TRUE
    /\ hist = NoWrites
    /\ urns = None
    /\ index = None
    /\ profile = None
    /\ member = None
    /\ client = None
    /\ threads = None

\* error_from_response(response)
ErrorFromResponse ==
    LET e == error_from_response(response) IN
    /\ last' = [op |-> "error_from_response", args |-> None,
                res |-> IF e.cls = "AttributeError" THEN e.cls ELSE "ok",
                ret |-> IF e.cls = "AttributeError" THEN None ELSE e]
    /\ UNCHANGED <<entityVars, proxyVars, calls, profile, otherVars>>

\* raise_for_api_error(response)
RaiseForApiError ==
    /\ last' = [op |-> "raise_for_api_error", args |-> None,
                res |-> raise_for_api_error(response), ret |-> None]
    /\ UNCHANGED <<entityVars, proxyVars, calls, profile, otherVars>>

ClassifyNext ==
    \/ ErrorFromResponse
    \/ RaiseForApiError

ClassifySpec == ClassifyInit /\ [][ClassifyNext]_vars

(***************************************************************************)
(* The HTTP client (client.py; api_client.py repeats it).  client is       *)
(* [token, expiry, now]: _token, _token_expiry_ts in tenths of a second,   *)
(* and the seconds time.time() reads.  A header map is a function from     *)
(* header names (tuples of characters) to [value |-> v] for a caller's     *)
(* value and [bearer |-> token] for f"Bearer {token}".  A call is          *)
(* [kind |-> "auth", reply] or [kind |-> "request", method, headers,       *)
(* kwargs, reply].                                                         *)
(***************************************************************************)

\* k.lower(), for the letters the header names are written in
HeaderLower(k) ==
    [i \in 1..Len(k) |->
       CASE k[i] = "A" -> "a" [] k[i] = "U" -> "u" [] k[i] = "T" -> "t"
         [] k[i] = "H" -> "h" [] k[i] = "O" -> "o" [] k[i] = "R" -> "r"
         [] k[i] = "I" -> "i" [] k[i] = "Z" -> "z" [] k[i] = "N" -> "n"
         [] k[i] = "X" -> "x" [] OTHER -> k[i]]

\* the header the client sets
AuthorizationHeader == <<"A","u","t","h","o","r","i","z","a","t","i","o","n">>

\* replies of the login endpoint: a status and the result mapping of the body
AuthReplies ==
    { [status |-> 401, result |-> EmptyMap],
      [status |-> 200, result |-> EmptyMap],
      [status |-> 200, result |-> [token |-> Str(<<>>), expires_in |-> Num(120)]],
      [status |-> 200, result |-> [token |-> Str(<<"a","b","c">>), expires_in |-> Num(120)]],
      [status |-> 200, result |-> [token |-> Str(<<>>), jwt |-> Str(<<"j","w","t">>),
                                   expires_in |-> Num(20)]],
      [status |-> 200, result |-> [access_token |-> Str(<<"n","e","w">>),
                                   expires_in |-> Num(5)]],
      [status |-> 200, result |-> [access_token |-> Str(<<"a","b","c">>)]] }

\* DataClient.authenticate; the safety margin min(60, max(10, expires_in *
\* 0.1)) is computed in tenths of a second
AuthenticateResult(c, a) ==
    LET d == a.result
        get(k) == IF k \in DOMAIN d /\ d[k] # Str(<<>>) THEN d[k] ELSE None
        token == IF get("token") # None THEN get("token")
                 ELSE IF get("access_token") # None THEN get("access_token")
                 ELSE get("jwt")
        expires_in == IF "expires_in" \in DOMAIN d THEN d["expires_in"].int ELSE 3600
        margin == IF expires_in < 100 THEN 100
                  ELSE IF expires_in > 600 THEN 600 ELSE expires_in
    IN  IF a.status # 200 \/ token = None
        THEN [client |-> c, calls |-> <<[kind |-> "auth", reply |-> a]>>,
              res |-> "WisefoodError"]
        ELSE [client |-> [c EXCEPT !.token = token,
                                   !.expiry = 10 * c.now + 10 * expires_in - margin],
              calls |-> <<[kind |-> "auth", reply |-> a]>>, res |-> "ok"]

\* an _ensure_token that looks at the token only
EnsureTokenIgnoringExpiry(c, a) ==
    IF c.token = None
    THEN AuthenticateResult(c, a)
    ELSE [client |-> c, calls |-> <<>>, res |-> "ok"]

\* DataClient._ensure_token
EnsureTokenResult(c, a) ==
    IF c.token = None \/ 10 * c.now >= c.expiry
    THEN AuthenticateResult(c, a)
    ELSE [client |-> c, calls |-> <<>>, res |-> "ok"]

\* a merge in which the caller's headers override
MergeHeadersUnfiltered(auth, token, headers) ==
    LET own == IF auth THEN {AuthorizationHeader} ELSE {} IN
    [k \in own \cup DOMAIN headers |->
       IF k \in DOMAIN headers THEN headers[k] ELSE [bearer |-> token]]

\* DataClient.request: the headers of the request
MergeHeaders(auth, token, headers) ==
    LET own == IF auth THEN {AuthorizationHeader} ELSE {}
        filtered == { k \in DOMAIN headers :
                        ~(auth /\ HeaderLower(k) = HeaderLower(AuthorizationHeader)) }
    IN  [k \in own \cup filtered |->
           IF k \in filtered THEN headers[k] ELSE [bearer |-> token]]

\* DataClient.request
RequestResult(c, method, auth, headers, kwargs, a, o) ==
    LET e == IF auth THEN EnsureTokenResult(c, a)
             ELSE [client |-> c, calls |-> <<>>, res |-> "ok"]
        req == [kind |-> "request", method |-> method,
                headers |-> MergeHeaders(auth, e.client.token, headers),
                kwargs |-> kwargs, reply |-> o]
    IN  IF e.res # "ok" THEN e
        ELSE IF kwargs # EmptyMap /\ method \in {"GET", "DELETE"}
        THEN [e EXCEPT !.res = "ValueError"]
        ELSE [client |-> e.client, calls |-> e.calls \o <<req>>,
              res |-> raise_for_api_error(o)]

\* the last second of the clock
MaxClock == 20

\* DataClient.__init__: it authenticates at once, and fails unless that
\* succeeds
ClientInit ==
    /\ \E a \in AuthReplies :
         LET r == AuthenticateResult([token |-> None, expiry |-> 0, now |-> 0], a) IN
         /\ r.res = "ok"
         /\ client = r.client
         /\ calls = r.calls
    /\ last = [op |-> "init", args |-> None, res |-> "ok", ret |-> None]
    /\ data = EmptyMap
    /\ dirty = {}
    /\ sync = TRUE
    /\ hist = NoWrites
    /\ urns = None
    /\ index = None
    /\ profile = None
    /\ member = None
    /\ response = None
    /\ threads = None

\* client.request(method, "items", auth=..., headers=..., **kwargs)
ClientRequest ==
    \E method \in {"GET", "POST", "DELETE"}, auth \in BOOLEAN,
       headers \in { EmptyMap,
                     [k \in {AuthorizationHeader, <<"X","-","T","e","s","t">>} |->
                        [value |-> IF k = AuthorizationHeader THEN "override" ELSE "yes"]],
                     [k \in {<<"A","U","T","H","O","R","I","Z","A","T","I","O","N">>} |->
                        [value |-> "override"]] },
       kwargs \in { EmptyMap, [json |-> [a |-> Num(1)]] },
       o \in { r \in Responses : "text" \in DOMAIN r.body /\ r.status \in {200, 404} } :
      \E a \in IF auth /\ EnsureTokenResult(client, CHOOSE x \in AuthReplies : TRUE).calls # <<>>
               THEN AuthReplies ELSE { CHOOSE x \in AuthReplies : TRUE } :
        LET r == RequestResult(client, method, auth, headers, kwargs, a, o) IN
        /\ client' = r.client
        /\ calls' = r.calls
        /\ last' = [op |-> "request",
                    args |-> [method |-> method, auth |-> auth, headers |-> headers,
                              kwargs |-> kwargs],
                    res |-> r.res, ret |-> None]
        /\ UNCHANGED <<entityVars, proxyVars, profile, member, response, threads>>

\* time passes
ClientTick ==
    \E d \in {10} :
        /\ client.now + d <= MaxClock
        /\ client' = [client EXCEPT !.now = @ + d]
        /\ calls' = <<>>
        /\ last' = [op |-> "tick", args |-> [seconds |-> d], res |-> "ok", ret |-> None]
        /\ UNCHANGED <<entityVars, proxyVars, profile, member, response, threads>>

\* client._token = None; client._token_expiry_ts = 0
ClientForgetToken ==
    /\ client' = [client EXCEPT !.token = None, !.expiry = 0]
    /\ calls' = <<>>
    /\ last' = [op |-> "forget", args |-> None, res |-> "ok", ret |-> None]
    /\ UNCHANGED <<entityVars, proxyVars, profile, member, response, threads>>

ClientNext ==
    \/ ClientRequest
    \/ ClientTick
    \/ ClientForgetToken

ClientSpec == ClientInit /\ [][ClientNext]_vars

(***************************************************************************)
(* The list parser and the identifier normalization as functions of their  *)
(* input.  response is [payload |-> p] for a list payload to parse, or     *)
(* [urn |-> x] for a string to normalize; normalizing replaces the string  *)
(* by its normal form, so that a second application starts from the first  *)
(* one's result.                                                           *)
(***************************************************************************)

\* longest list parsed, longest string normalized (before any prefix)
MaxItems == 2
MaxUrnLen == 3

\* the payloads handed to the parser: lists, bare or under result, of
\* identifier strings, mappings with and without urn, and numbers; and a
\* mapping that holds no list.  The strings handed to normalize_urn: those
\* over a slash, a colon and a letter, and those after the urn prefix.
FunctionInit ==
    /\ LET values == { Str(UrnOf(AlphaSlug)), Str(UrnOf(BetaSlug)),
                       [urn |-> Str(UrnOf(BetaSlug))], [title |-> Str(Fresh)], Num(1) }
           lists == UNION { [1..n -> values] : n \in 0..MaxItems }
           strings == UNION { [1..n -> {"/", ":", "a"}] : n \in 0..MaxUrnLen }
       IN  response \in { [payload |-> [result |-> JsonList(l)]] : l \in lists }
                          \cup { [payload |-> JsonList(l)] : l \in lists }
                          \cup { [payload |-> [total |-> Num(1)]] }
                          \cup { [urn |-> x] : x \in strings }
                          \cup { [urn |-> URN_PREFIX \o x] :
                                   x \in { y \in strings : Len(y) < MaxUrnLen } }
    /\ calls = <<>>
    /\ last = [op |-> "init", args |-> None, res |-> "ok", ret |-> None]
    /\ data = EmptyMap
    /\ dirty = {}
    /\ sync = TRUE
    /\ hist = NoWrites
    /\ urns = None
    /\ index = None
    /\ profile = None
    /\ member = None
    /\ client = None
    /\ threads = None

\* proxy._parse_list_result(payload)
ParseList ==
    /\ "payload" \in DOMAIN response
    /\ LET r == ParseListResult(response.payload) IN
       last' = [op |-> "parse", args |-> None, res |-> r.res, ret |-> JsonList(r.items)]
    /\ UNCHANGED <<entityVars, proxyVars, calls, profile, otherVars>>

\* Article.normalize_urn(x)
NormalizeUrn ==
    /\ "urn" \in DOMAIN response
    /\ response' = [urn |-> normalize_urn(response.urn)]
    /\ last' = [op |-> "normalize_urn", args |-> response, res |-> "ok",
                ret |-> Str(normalize_urn(response.urn))]
    /\ UNCHANGED <<entityVars, proxyVars, calls, profile, member, client, threads>>

FunctionNext ==
    \/ ParseList
    \/ NormalizeUrn

FunctionSpec == FunctionInit /\ [][FunctionNext]_vars

(***************************************************************************)
(* Two threads that each write one field of the same entity, with no lock  *)
(* around the writes.  A step is one statement of Field.__set__ or of      *)
(* BaseEntity.save: the interleavings at statement boundaries are among    *)
(* those the interpreter allows.  threads holds where each thread is (pc), *)
(* the field and value it writes, the body it built and the reply it got,  *)
(* the record the server holds, which a PATCH updates and answers with,    *)
(* and the threads whose value in data was replaced before they built      *)
(* their body by a reply whose request did not carry it (overwritten).     *)
(***************************************************************************)

\* a save that keeps the local value of every dirty key when it stores the
\* reply
StoredDataKeepingDirty(d, dy, payload) ==
    LET r == ExtractResult(payload) IN
    [k \in DOMAIN r |-> IF k \in dy \cap DOMAIN d THEN d[k] ELSE r[k]]

\* self.data = self._extract_result(payload)
StoredData(d, dy, payload) == ExtractResult(payload)

\* the entity was fetched; one thread is about to write the title, the other
\* the authors
ThreadInit ==
    /\ data \in { [k \in D |-> ServerValue(k)] : D \in { E \in SUBSET Keys : "urn" \in E } }
    /\ dirty = {}
    /\ sync \in BOOLEAN
    /\ \E title \in {Str(Old), Str(New)} :
         threads = [pc |-> [t \in {"first", "second"} |-> "set"],
                    write |-> [t \in {"first", "second"} |->
                                 IF t = "first" THEN [key |-> "title", value |-> title]
                                 ELSE [key |-> "authors", value |-> List("caller")]],
                    body |-> [t \in {"first", "second"} |-> EmptyMap],
                    reply |-> [t \in {"first", "second"} |-> EmptyMap],
                    server |-> FullPayload,
                    overwritten |-> {}]
    /\ calls = <<>>
    /\ last = [op |-> "init", args |-> None, res |-> "ok", ret |-> None]
    /\ hist = NoWrites
    /\ urns = None
    /\ index = None
    /\ profile = None
    /\ member = None
    /\ response = None
    /\ client = None

\* Field.__set__: instance.data[key] = value
ThreadSetItem ==
    \E t \in DOMAIN threads.pc :
      /\ threads.pc[t] = "set"
      /\ data' = Put(data, threads.write[t].key, threads.write[t].value)
      /\ threads' = [threads EXCEPT !.pc[t] = "mark"]
      /\ last' = [op |-> "set", args |-> [thread |-> t], res |-> "ok", ret |-> None]
      /\ UNCHANGED <<dirty, sync, hist, calls, proxyVars, profile, member, response, client>>

\* Field.__set__: dirty.add(key), and the test of instance.sync
ThreadMarkDirty ==
    \E t \in DOMAIN threads.pc :
      /\ threads.pc[t] = "mark"
      /\ dirty' = dirty \cup {threads.write[t].key}
      /\ threads' = [threads EXCEPT !.pc[t] = IF sync THEN "body" ELSE "done"]
      /\ last' = [op |-> "mark", args |-> [thread |-> t], res |-> "ok", ret |-> None]
      /\ UNCHANGED <<data, sync, hist, calls, proxyVars, profile, member, response, client>>

\* save(only_dirty=True): the body, built from the dirty set and data as they
\* are now; nothing is sent when it is empty
ThreadBuildBody ==
    \E t \in DOMAIN threads.pc :
      /\ threads.pc[t] = "body"
      /\ IF ~(SaveKeys(data, dirty, TRUE) \subseteq DOMAIN data)
         THEN /\ threads' = [threads EXCEPT !.pc[t] = "raised"]
              /\ last' = [op |-> "body", args |-> [thread |-> t],
                          res |-> "KeyError", ret |-> None]
         ELSE /\ threads' = [threads EXCEPT
                               !.body[t] = SaveBody(data, dirty, TRUE),
                               !.pc[t] = IF SaveBody(data, dirty, TRUE) = EmptyMap
                                         THEN "done" ELSE "patch"]
              /\ last' = [op |-> "body", args |-> [thread |-> t], res |-> "ok", ret |-> None]
      /\ UNCHANGED <<data, dirty, sync, hist, calls, proxyVars, profile, member, response, client>>

\* save: self.client.patch(f"{ENDPOINT}/{self.urn}", json=body).  The server
\* updates its record with the body and answers with the record, or the call
\* raises.
ThreadPatch ==
    \E t \in DOMAIN threads.pc :
      /\ threads.pc[t] = "patch"
      /\ IF ~HasUrn(data)
         THEN /\ threads' = [threads EXCEPT !.pc[t] = "raised"]
              /\ last' = [op |-> "patch", args |-> [thread |-> t],
                          res |-> "KeyError", ret |-> None]
              /\ UNCHANGED calls
         ELSE \E ok \in BOOLEAN :
                LET body == threads.body[t]
                    record == [k \in DOMAIN threads.server \cup DOMAIN body |->
                                 IF k \in DOMAIN body THEN body[k] ELSE threads.server[k]]
                    o == IF ok THEN [ok |-> TRUE, body |-> [result |-> record]] ELSE Raises
                IN  /\ calls' = Append(calls, Call("PATCH", EntityPath(data["urn"].str), body, o))
                    /\ threads' = IF ok
                                  THEN [threads EXCEPT !.server = record,
                                                       !.reply[t] = o.body,
                                                       !.pc[t] = "store"]
                                  ELSE [threads EXCEPT !.pc[t] = "raised"]
                    /\ last' = [op |-> "patch", args |-> [thread |-> t],
                                res |-> IF ok THEN "ok" ELSE "TransportError", ret |-> None]
      /\ UNCHANGED <<data, dirty, sync, hist, proxyVars, profile, member, response, client>>

\* save: self.data = self._extract_result(payload)
ThreadStore ==
    \E t \in DOMAIN threads.pc :
      /\ threads.pc[t] = "store"
      /\ data' = StoredData(data, dirty, threads.reply[t])
      /\ threads' = [threads EXCEPT
                       !.pc[t] = "clear",
                       !.overwritten = @ \cup
                          { u \in DOMAIN threads.pc \ {t} :
                              /\ threads.pc[u] \in {"mark", "body"}
                              /\ threads.write[u].key \notin DOMAIN threads.body[t] }]
      /\ last' = [op |-> "store", args |-> [thread |-> t], res |-> "ok", ret |-> None]
      /\ UNCHANGED <<dirty, sync, hist, calls, proxyVars, profile, member, response, client>>

\* save: self._dirty_fields.clear()
ThreadClear ==
    \E t \in DOMAIN threads.pc :
      /\ threads.pc[t] = "clear"
      /\ dirty' = DirtyAfterPatch(dirty)
      /\ threads' = [threads EXCEPT !.pc[t] = "done"]
      /\ last' = [op |-> "clear", args |-> [thread |-> t], res |-> "ok", ret |-> None]
      /\ UNCHANGED <<data, sync, hist, calls, proxyVars, profile, member, response, client>>

ThreadNext ==
    \/ ThreadSetItem
    \/ ThreadMarkDirty
    \/ ThreadBuildBody
    \/ ThreadPatch
    \/ ThreadStore
    \/ ThreadClear

ThreadSpec == ThreadInit /\ [][ThreadNext]_vars

----------------------------------------------------------------------------
(* Properties.  An action property [][A]_vars reads the entity before the
   operation in the unprimed variables and the operation, its calls and the
   entity after it in the primed ones. *)

\* the payload of a reply, as the specification describes the envelope
Unwrapped(reply) == IF "result" \in DOMAIN reply THEN reply["result"] ELSE reply

\* the server-managed keys, as the specification lists them
ManagedKeys == {"id", "creator", "created_at", "updated_at"}

ArticlePath(urn) == <<"a","r","t","i","c","l","e","s","/">> \o urn

\* C1: Save(onlyDirty=true) on an entity whose dirty set is empty issues no
\* transport call and leaves data and the dirty set unchanged.
C1_SaveCleanIsNoOp ==
    [][ (last'.op = "save" /\ last'.only_dirty /\ dirty = {})
          => (calls' = <<>> /\ data' = data /\ dirty' = dirty) ]_vars

\* C2: with sync disabled and fields written since the dirty set was last
\* cleared, Save(onlyDirty=true) on an entity that holds its urn issues exactly
\* one PATCH to articles/{urn} whose body maps exactly the written keys to their
\* last-written values; when the PATCH succeeds data is the unwrapped response
\* and the dirty set is empty.
C2_SaveSendsWrittenFields ==
    [][ ( /\ last'.op = "save" /\ last'.only_dirty
          /\ ~sync
          /\ hist.pure /\ hist.writes # EmptyMap
          /\ "urn" \in DOMAIN data /\ DOMAIN data # {"urn"} )
          => ( /\ Len(calls') = 1
               /\ calls'[1].method = "PATCH"
               /\ calls'[1].path = ArticlePath(data["urn"].str)
               /\ calls'[1].body = hist.writes
               /\ calls'[1].ok =>
                    /\ data' = Unwrapped(calls'[1].reply)
                    /\ dirty' = {}
                    /\ last'.res = "ok" ) ]_vars

\* C2 witness: a save with sync disabled has sent the two written fields, the
\* title with its last-written value, and the dirty set is empty.
C2_Witness ==
    /\ last.op = "save" /\ last.only_dirty /\ last.res = "ok"
    /\ ~sync
    /\ Len(calls) = 1
    /\ DOMAIN calls[1].body = {"title", "authors"}
    /\ calls[1].body["title"] = Str(New)
    /\ dirty = {}

\* C3: no PATCH body produced by save(only_dirty=True), called by the caller
\* or by a field write, holds id, creator, created_at or updated_at.
C3_NoManagedKeyInBody ==
    (last.op = "write" \/ (last.op = "save" /\ last.only_dirty))
      => \A i \in 1..Len(calls) : DOMAIN calls[i].body \cap ManagedKeys = {}

\* C3 witness: a save(only_dirty=True) sent the title while id was in the
\* dirty set (the PATCH failed, so the dirty set still shows it).
C3_Witness ==
    /\ last.op = "save" /\ last.only_dirty
    /\ Len(calls) = 1
    /\ "id" \in dirty
    /\ DOMAIN calls[1].body = {"title"}

\* the fields of Article a caller may write, and the one it may not
WritableKeys == {"title", "authors"}

\* dict d with key k set to v, as the specification's data[key] = value
WithKey(d, k, v) == [x \in DOMAIN d \cup {k} |-> IF x = k THEN v ELSE d[x]]

\* C4 as stated: with sync enabled every write of a writable field issues
\* exactly one PATCH, and a successful one carries only the field just written
\* and leaves the dirty set empty (stated for an entity that holds its urn and
\* the value of every dirty field).
C4_EachSyncWriteSendsOnlyItsField ==
    [][ ( /\ last'.op = "write" /\ sync /\ last'.key \in WritableKeys
          /\ "urn" \in DOMAIN data
          /\ dirty \subseteq DOMAIN data )
          => ( /\ Len(calls') = 1
               /\ calls'[1].method = "PATCH"
               /\ calls'[1].ok =>
                    /\ dirty' = {}
                    /\ DOMAIN calls'[1].body = {last'.key}
                    /\ calls'[1].body[last'.key] = last'.value ) ]_vars

\* C4 amended: with sync enabled and urn in data, a write of a writable field
\* issues exactly one PATCH to articles/{urn} whose body holds the current
\* values of all dirty fields that are not server-managed (data holding each of
\* them); on success data is the response and the dirty set is empty, on
\* failure the value and the dirty mark stay; the body is the written field
\* alone when no other writable field was dirty before.
C4_SyncWritePatchesDirtyFields ==
    [][ ( /\ last'.op = "write" /\ sync /\ last'.key \in WritableKeys
          /\ "urn" \in DOMAIN data
          /\ (dirty \ ManagedKeys) \subseteq (DOMAIN data \cup {last'.key}) )
          => LET d1 == WithKey(data, last'.key, last'.value)
                 keys == (dirty \cup {last'.key}) \ ManagedKeys
             IN  /\ Len(calls') = 1
                 /\ calls'[1].method = "PATCH"
                 /\ calls'[1].path = ArticlePath(data["urn"].str)
                 /\ calls'[1].body = [k \in keys |-> d1[k]]
                 /\ (dirty \ ManagedKeys) \subseteq {last'.key}
                      => calls'[1].body = [k \in {last'.key} |-> last'.value]
                 /\ calls'[1].ok =>
                      /\ last'.res = "ok"
                      /\ dirty' = {}
                      /\ data' = Unwrapped(calls'[1].reply)
                 /\ ~calls'[1].ok =>
                      /\ last'.res = "TransportError"
                      /\ dirty' = dirty \cup {last'.key}
                      /\ data' = d1 ]_vars

\* C4 witness: a sync write of the title has returned after one successful
\* PATCH that carried the title alone, and the dirty set is empty.
C4_Witness ==
    /\ last.op = "write" /\ last.key = "title" /\ last.res = "ok"
    /\ sync
    /\ Len(calls) = 1 /\ calls[1].method = "PATCH" /\ calls[1].ok
    /\ calls[1].body = [k \in {"title"} |-> Str(New)]
    /\ dirty = {}

\* C5: a write of the read-only field id raises, with sync enabled or
\* disabled, issues no transport call and leaves data and the dirty set as
\* they were.
C5_ReadOnlyWriteFails ==
    [][ (last'.op = "write" /\ last'.key = "id")
          => ( /\ last'.res = "AttributeError"
               /\ calls' = <<>>
               /\ data' = data
               /\ dirty' = dirty ) ]_vars

\* C5 witness: a write of id has raised on an entity with sync enabled.
C5_Witness ==
    /\ last.op = "write" /\ last.key = "id" /\ last.res = "AttributeError"
    /\ sync
    /\ calls = <<>>

\* data holds the urn and nothing else
UrnOnly(d) == DOMAIN d = {"urn"}

\* C6 as stated: a read of a declared field of a lazy entity fetches once, a
\* read that follows a read whose fetch succeeded fetches nothing, whatever the
\* payload was, and reading urn never fetches.
C6_OneFetchThenNone ==
    [][ /\ (last'.op = "read" /\ UrnOnly(data)
              /\ ~(last.op = "read" /\ calls # <<>> /\ calls[1].ok))
             => (Len(calls') = 1 /\ calls'[1].method = "GET")
        /\ (last'.op = "read" /\ last.op = "read" /\ calls # <<>> /\ calls[1].ok)
             => calls' = <<>>
        /\ last'.op = "urn" => calls' = <<>> ]_vars

\* C6 amended: a read of a declared field fetches exactly when data holds only
\* the urn, and then once, by GET articles/{urn}; after a fetch that succeeded
\* with a payload that is not urn-only the entity is not lazy, a read never
\* makes a non-lazy entity lazy, so later reads fetch nothing; reading urn
\* never fetches.
C6_FetchExactlyWhenUrnOnly ==
    [][ /\ last'.op = "read" =>
             /\ Len(calls') = (IF UrnOnly(data) THEN 1 ELSE 0)
             /\ \A i \in 1..Len(calls') :
                   /\ calls'[i].method = "GET"
                   /\ calls'[i].path = ArticlePath(data["urn"].str)
             /\ (calls' # <<>> /\ calls'[1].ok /\ ~UrnOnly(Unwrapped(calls'[1].reply)))
                  => ~UrnOnly(data')
             /\ ~UrnOnly(data) => ~UrnOnly(data')
        /\ last'.op = "urn" => calls' = <<>> ]_vars

\* C6 witness: a read of the title has fetched once, the fetch succeeded and
\* the entity is no longer lazy.
C6_Witness ==
    /\ last.op = "read" /\ last.key = "title" /\ last.res = "ok"
    /\ Len(calls) = 1 /\ calls[1].method = "GET" /\ calls[1].ok
    /\ ~UrnOnly(data)
    /\ last.ret = Str(Fresh)

\* C7: after a successful Refresh data is the fetched payload and no field
\* written before it is still dirty.
C7_RefreshDiscardsEdits ==
    (last.op = "refresh" /\ last.res = "ok")
      => ( /\ data = Unwrapped(calls[1].reply)
           /\ dirty \cap DOMAIN hist.writes = {} )

\* C8 as stated: data holds the key urn in every reachable state.
C8_UrnAlwaysPresent == "urn" \in DOMAIN data

\* C8 amended: an operation removes urn from data only by replacing data with
\* the unwrapped payload of a successful GET or PATCH (to which a read may add
\* the field it materializes), and only when that payload itself lacks urn.
C8_UrnLostOnlyToPayload ==
    [][ ("urn" \in DOMAIN data /\ "urn" \notin DOMAIN data')
          => \E i \in 1..Len(calls') :
                LET payload == Unwrapped(calls'[i].reply) IN
                /\ calls'[i].ok
                /\ calls'[i].method \in {"GET", "PATCH"}
                /\ DOMAIN payload \subseteq DOMAIN data'
                /\ DOMAIN data' \subseteq DOMAIN payload \cup {last'.key}
                /\ \A k \in DOMAIN payload : data'[k] = payload[k]
                /\ "urn" \notin DOMAIN payload ]_vars

\* C8 witness: a refresh has replaced data with a payload that lacks urn, and
\* data has lost it.
C8_Witness ==
    /\ last.op = "refresh" /\ last.res = "ok"
    /\ Len(calls) = 1 /\ calls[1].ok
    /\ "title" \in DOMAIN Unwrapped(calls[1].reply)
    /\ "urn" \notin DOMAIN Unwrapped(calls[1].reply)
    /\ data = Unwrapped(calls[1].reply)

\* C9 as stated: a read of the default-factory field authors whose key is
\* absent from data materializes a container, stores it under the key and
\* returns it.
C9_AbsentKeyIsMaterialized ==
    [][ (last'.op = "read" /\ last'.key = "authors" /\ last'.res = "ok"
           /\ "authors" \notin DOMAIN data)
          => ( /\ last'.made
               /\ "authors" \in DOMAIN data'
               /\ data'["authors"] = last'.ret
               /\ last'.ret = List("factory") ) ]_vars

\* C9 amended: a read of authors that returns first replaces data by the
\* fetched payload when the entity is lazy; then, if the key is absent, it
\* materializes a container, stores it under the key and returns it, and if
\* the key is present (as on a second read) it returns the stored value,
\* materializes nothing and leaves data alone.
C9_MaterializedOnceAfterFetch ==
    [][ (last'.op = "read" /\ last'.key = "authors" /\ last'.res = "ok")
          => LET d1 == IF calls' # <<>> THEN Unwrapped(calls'[1].reply) ELSE data IN
             IF "authors" \in DOMAIN d1
             THEN /\ ~last'.made
                  /\ last'.ret = d1["authors"]
                  /\ data' = d1
             ELSE /\ last'.made
                  /\ last'.ret = List("factory")
                  /\ data' = WithKey(d1, "authors", List("factory")) ]_vars

\* C9 witness: a read of authors has returned the stored container that an
\* earlier read materialized, without materializing again.
C9_Witness ==
    /\ last.op = "read" /\ last.key = "authors" /\ last.res = "ok"
    /\ ~last.made
    /\ calls = <<>>
    /\ last.ret = List("factory")
    /\ data["authors"] = List("factory")

\* C10: after a successful Delete the entity's local data is cleared.
C10_DeleteClearsData ==
    (last.op = "delete" /\ last.res = "ok")
      => ( /\ Len(calls) = 1
           /\ calls[1].method = "DELETE"
           /\ data = EmptyMap )

----------------------------------------------------------------------------
(* Properties of the collection proxy, under ProxySpec *)

\* the calls among cs that fetch the list endpoint for the index
IndexFetches(cs) == { i \in 1..Len(cs) : IsIndexFetch(cs[i]) }

\* the calls among cs that GET the list endpoint
ListFetches(cs) == { i \in 1..Len(cs) : cs[i].method = "GET" /\ cs[i].path = ENDPOINT }

\* the calls among cs that GET one article
EntityFetches(cs) ==
    { i \in 1..Len(cs) : cs[i].method = "GET" /\ cs[i].path # ENDPOINT }

Count(l, u) == Cardinality({ i \in 1..Len(l.items) : l.items[i] = u })

\* C12: a create that returns on a populated cache leaves the cache holding
\* the new entity's urn exactly once: appended when it was absent, the cache
\* as it was when it was present; a create on an unpopulated cache leaves it
\* None and makes no list fetch.
C12_CreateKeepsCacheInSync ==
    [][ last'.op = "create"
          => /\ urns = None => (urns' = None /\ ListFetches(calls') = {})
             /\ (urns # None /\ last'.res = "ok") =>
                  LET u == last'.ret.entity["urn"].str IN
                  /\ Count(urns', u) = 1
                  /\ urns' = IF Count(urns, u) > 0 THEN urns
                             ELSE JsonList(urns.items \o <<u>>)
                  /\ ListFetches(calls') = {} ]_vars

\* C12 witness: a create has returned an entity whose urn the cache held
\* already, and the cache holds it once.
C12_Witness ==
    /\ last.op = "create" /\ last.res = "ok"
    /\ urns # None
    /\ index.added = <<>>
    /\ Count(urns, last.ret.entity["urn"].str) = 1

\* C13: a slice with a step other than 1, or without a stop, raises the
\* validation error before any transport call and leaves the cache alone.
C13_BadSliceFailsLocally ==
    [][ ( /\ last'.op = "slice"
          /\ \/ last'.args.step \notin {None, Num(1)}
             \/ last'.args.stop = None )
          => ( /\ last'.res = "ValueError"
               /\ calls' = <<>>
               /\ urns' = urns ) ]_vars

\* C14: a slice [start:stop] with step 1 and stop > start makes exactly one
\* call, GET of the list endpoint with offset start and limit stop - start,
\* whatever the cache holds, leaves the cache as it was, and when it returns
\* it returns one urn-only entity per identifier of the reply.
C14_SliceFetchesItsPage ==
    [][ ( /\ last'.op = "slice"
          /\ last'.args.step \in {None, Num(1)}
          /\ last'.args.stop # None
          /\ last'.args.stop.int >
               (IF last'.args.start = None THEN 0 ELSE last'.args.start.int) )
          => LET start == IF last'.args.start = None THEN 0 ELSE last'.args.start.int
                 stop == last'.args.stop.int
             IN  /\ Len(calls') = 1
                 /\ calls'[1].method = "GET"
                 /\ calls'[1].path = <<"a","r","t","i","c","l","e","s">>
                 /\ calls'[1].body = [limit |-> stop - start, offset |-> start]
                 /\ urns' = urns
                 /\ last'.res = "ok" =>
                      LET sent == Unwrapped(calls'[1].reply).items IN
                      /\ Len(last'.ret.items) = Len(sent)
                      /\ \A i \in 1..Len(sent) :
                           /\ DOMAIN last'.ret.items[i].entity = {"urn"}
                           /\ last'.ret.items[i].entity["urn"] =
                                (IF IsJsonStr(sent[i]) THEN sent[i] ELSE sent[i]["urn"]) ]_vars

\* C14 witness: a slice on a proxy whose cache is None has returned two lazy
\* entities after one call, and the cache is still None.
C14_Witness ==
    /\ last.op = "slice" /\ last.res = "ok"
    /\ Len(calls) = 1
    /\ Len(last.ret.items) = 2
    /\ urns = None

LowerChar(c) ==
    CASE c = "A" -> "a" [] c = "B" -> "b" [] c = "N" -> "n" [] c = "U" -> "u"
      [] OTHER -> c

Lower(str) == [i \in 1..Len(str) |-> LowerChar(str[i])]

\* part occurs in whole
IsSubstring(part, whole) ==
    \E i \in 1..(Len(whole) - Len(part) + 1) : SubSeq(whole, i, i + Len(part) - 1) = part

\* the cached urns a key matches as a substring, case-insensitively
FuzzyMatches(l, key) ==
    { i \in 1..Len(l.items) : IsSubstring(Lower(key), Lower(l.items[i])) }

\* C16: a string lookup whose key is neither a cached urn nor the slug of one
\* scans the cached urns for the key as a substring: no match raises NotFound,
\* one match returns that entity, several return the list of their entities.
C16_FuzzyLookupScansCache ==
    ( /\ last.op = "key" /\ urns # None
      /\ last.res \in {"ok", "NotFound"}
      /\ LStripSlash(last.args.key) \notin Elems(urns)
      /\ URN_PREFIX \o LStripSlash(last.args.key) \notin Elems(urns) )
      => LET hits == FuzzyMatches(urns, LStripSlash(last.args.key)) IN
         /\ hits = {} => last.res = "NotFound"
         /\ Cardinality(hits) = 1 =>
              /\ last.res = "ok"
              /\ \E i \in hits : last.ret.entity["urn"] = Str(urns.items[i])
         /\ Cardinality(hits) > 1 =>
              /\ last.res = "ok"
              /\ IsJsonList(last.ret)
              /\ Len(last.ret.items) = Cardinality(hits)

\* C17 as stated: len returns the number of urns of the one page the index
\* fetch brought, whatever create and enhance did since.
C17_LenIsFirstPageSize ==
    [][ (last'.op = "len" /\ last'.res = "ok")
          => ( /\ index'.fetched = 1
               /\ last'.ret = Num(Len(index'.page.items)) ) ]_vars

\* C17 amended: len returns the size of the cache, which is the page the one
\* index fetch brought followed by the urns create and enhance appended since.
C17_LenIsCacheSize ==
    [][ (last'.op = "len" /\ last'.res = "ok")
          => ( /\ index'.fetched = 1
               /\ urns' = JsonList(index'.page.items \o index'.added)
               /\ last'.ret = Num(Len(index'.page.items) + Len(index'.added)) ) ]_vars

\* C17 witness: a len has counted an urn that create or enhance appended to
\* the fetched page.
C17_Witness ==
    /\ last.op = "len" /\ last.res = "ok"
    /\ index.added # <<>>
    /\ last.ret = Num(Len(index.page.items) + Len(index.added))

\* C18: an integer lookup on an ensured index with a key in the range of the
\* cache makes one fetch, of the article at that position (counted from the
\* end for a negative key), and returns it; with a key out of range it raises
\* IndexError and fetches no article.
C18_IntegerLookupInRange ==
    [][ (last'.op = "index" /\ urns' # None)
          => LET n == Len(urns'.items)
                 key == last'.args.key
             IN  IF key >= n \/ key < -n
                 THEN /\ last'.res = "IndexError"
                      /\ EntityFetches(calls') = {}
                 ELSE LET u == urns'.items[IF key >= 0 THEN key + 1 ELSE n + key + 1] IN
                      /\ Cardinality(EntityFetches(calls')) = 1
                      /\ calls'[Len(calls')].path = ArticlePath(AfterLastColon(u))
                      /\ last'.res \in {"ok", "TransportError"}
                      /\ last'.res = "ok" => last'.ret.entity["urn"] = Str(u) ]_vars

\* C18 witness: an integer lookup past the end of a cache that holds urns has
\* raised IndexError without a call.
C18_Witness ==
    /\ last.op = "index" /\ last.res = "IndexError"
    /\ urns # None /\ urns.items # <<>>
    /\ last.args.key >= Len(urns.items)
    /\ calls = <<>>

\* the items of a search reply
ResultItems(reply) ==
    IF "result" \in DOMAIN reply /\ "results" \in DOMAIN reply["result"]
    THEN reply["result"]["results"].items ELSE <<>>

\* C19: search leaves the cache as it was and never GETs the list endpoint;
\* when it returns, every item that is a mapping with an urn is an entity made
\* of that mapping without a call, and every item that is a string cost
\* exactly one fetch of an article.
C19_SearchBypassesCache ==
    [][ last'.op = "search"
          => /\ urns' = urns
             /\ ListFetches(calls') = {}
             /\ calls'[1].method = "POST"
             /\ last'.res = "ok" =>
                  LET items == ResultItems(calls'[1].reply)
                      strs == { i \in 1..Len(items) : IsJsonStr(items[i]) }
                      maps == { i \in 1..Len(items) :
                                  ~IsJsonStr(items[i]) /\ "urn" \in DOMAIN items[i] }
                  IN  /\ Len(calls') = 1 + Cardinality(strs)
                      /\ Len(last'.ret.items) = Cardinality(strs) + Cardinality(maps)
                      /\ \A i \in maps :
                           \E j \in 1..Len(last'.ret.items) :
                              last'.ret.items[j].entity = items[i] ]_vars

\* C19 witness: a search on a proxy whose cache is None has returned two
\* entities, one from a payload and one fetched for a bare urn, and the cache
\* is still None.
C19_Witness ==
    /\ last.op = "search" /\ last.res = "ok"
    /\ Len(calls) = 2
    /\ Len(last.ret.items) = 2
    /\ "title" \in DOMAIN ResultItems(calls[1].reply)[1]
    /\ urns = None

----------------------------------------------------------------------------
(* Properties of the member profile, under ProfileSpec *)

\* C20 as stated: with sync enabled on a bound profile a write of a property
\* issues one PATCH to members/{id}/profile whose body holds that property
\* alone, with its new value, and on success the dirty set is empty.
C20_SyncWriteSendsOnlyItsProperty ==
    [][ (last'.op = "write" /\ profile.sync /\ profile.bound)
          => ( /\ Len(calls') = 1
               /\ calls'[1].method = "PATCH"
               /\ calls'[1].path = ProfilePath
               /\ calls'[1].body = [k \in {last'.args.name} |-> last'.args.value]
               /\ calls'[1].ok => profile'.dirty = {} ) ]_vars

\* C20 amended: with sync enabled on a bound profile a write of a property
\* issues one PATCH to members/{id}/profile whose body holds the property with
\* its new value together with every other dirty property the data holds;
\* on success the data is the unwrapped response and the dirty set is empty,
\* on failure the value and the dirty marks stay.
C20_SyncWriteSendsDirtyProperties ==
    [][ (last'.op = "write" /\ profile.sync /\ profile.bound)
          => LET name == last'.args.name
                 d1 == WithKey(profile.data, name, last'.args.value)
                 keys == (profile.dirty \cap DOMAIN profile.data) \cup {name}
             IN  /\ Len(calls') = 1
                 /\ calls'[1].method = "PATCH"
                 /\ calls'[1].path = ProfilePath
                 /\ calls'[1].body = [k \in keys |-> d1[k]]
                 /\ calls'[1].ok =>
                      /\ profile'.dirty = {}
                      /\ profile'.data = Unwrapped(calls'[1].reply)
                 /\ ~calls'[1].ok =>
                      /\ profile'.dirty = profile.dirty \cup {name}
                      /\ profile'.data = d1 ]_vars

\* C20 witness: a sync write on a bound profile has sent the property it
\* wrote together with one left dirty before, and the dirty set is empty.
C20_Witness ==
    /\ last.op = "write" /\ last.res = "ok"
    /\ profile.sync /\ profile.bound
    /\ Len(calls) = 1 /\ calls[1].ok
    /\ DOMAIN calls[1].body = {"dietary_groups", "properties"}
    /\ calls[1].body[last.args.name] = last.args.value
    /\ profile.dirty = {}

\* the properties __getattr__ knows a default for
RecognizedNames == {"dietary_groups", "nutritional_preferences", "properties"}

\* the empty default of a recognized property
EmptyDefault(name) == IF name = "dietary_groups" THEN List("empty") ELSE [dict |-> "empty"]

\* C21: a read of a recognized profile property makes no transport call and
\* leaves the data and the dirty set as they were; it returns the stored
\* value when the data holds the property, else an empty list for
\* dietary_groups and an empty mapping for nutritional_preferences and
\* properties.
C21_ProfileReadIsLocal ==
    [][ (last'.op = "read" /\ last'.args.name \in RecognizedNames)
          => ( /\ calls' = <<>>
               /\ profile' = profile
               /\ last'.res = "ok"
               /\ last'.ret = IF last'.args.name \in DOMAIN profile.data
                              THEN profile.data[last'.args.name]
                              ELSE EmptyDefault(last'.args.name) ) ]_vars

\* C21 witness: a read of properties on a profile whose data lacks it has
\* returned the empty mapping, and the data still lacks it.
C21_Witness ==
    /\ last.op = "read" /\ last.args.name = "properties" /\ last.res = "ok"
    /\ last.ret = [dict |-> "empty"]
    /\ "properties" \notin DOMAIN profile.data
    /\ calls = <<>>

\* C22: with sync disabled a profile write makes no transport call, sets the
\* property in the data and adds it to the dirty set, and a read of that
\* property right after it returns the written value.
C22_UnsyncedProfileWriteIsLocal ==
    [][ /\ (last'.op = "write" /\ ~profile.sync)
             => ( /\ calls' = <<>>
                  /\ last'.res = "ok"
                  /\ profile'.data = WithKey(profile.data, last'.args.name, last'.args.value)
                  /\ profile'.dirty = profile.dirty \cup {last'.args.name} )
        /\ ( /\ last.op = "write" /\ ~profile.sync /\ last'.op = "read"
             /\ last'.args.name = last.args.name )
             => last'.ret = last.args.value ]_vars

\* C22 witness: a read has returned the value that the write before it stored
\* with sync disabled, and the property is dirty.
C22_Witness ==
    /\ last.op = "read" /\ last.args.name = "dietary_groups"
    /\ last.ret = List("vegan")
    /\ ~profile.sync
    /\ "dietary_groups" \in profile.dirty
    /\ calls = <<>>

\* C23 as stated: on a profile that is not bound, refresh, delete, save and a
\* write with sync enabled raise the binding error and make no transport call.
C23_UnboundOperationsFail ==
    [][ ( /\ ~profile.bound
          /\ \/ last'.op \in {"refresh", "delete", "save"}
             \/ (last'.op = "write" /\ profile.sync) )
          => ( /\ last'.res = "RuntimeError"
               /\ calls' = <<>> ) ]_vars

\* C23 amended: on a profile that is not bound no operation makes a transport
\* call; refresh and delete raise the binding error and change nothing; save
\* returns without an error and changes nothing; a write with sync enabled
\* returns without an error, keeps the value in the data and the property in
\* the dirty set.
C23_UnboundOperationsStayLocal ==
    [][ ~profile.bound
          => /\ calls' = <<>>
             /\ last'.op \in {"refresh", "delete"} =>
                  (last'.res = "RuntimeError" /\ profile' = profile)
             /\ last'.op = "save" => (last'.res = "ok" /\ profile' = profile)
             /\ last'.op = "write" =>
                  /\ last'.res = "ok"
                  /\ profile'.data = WithKey(profile.data, last'.args.name, last'.args.value)
                  /\ profile'.dirty = profile.dirty \cup {last'.args.name} ]_vars

\* C23 witness: a write with sync enabled on a profile that is not bound has
\* returned without a call, and the property is dirty.
C23_Witness ==
    /\ last.op = "write" /\ last.res = "ok"
    /\ ~profile.bound /\ profile.sync
    /\ last.args.name \in profile.dirty
    /\ profile.data[last.args.name] = last.args.value
    /\ calls = <<>>

\* C24: a delete that returns has made one call, DELETE
\* members/{id}/profile, and left the data empty; a read of a recognized
\* property right after it returns the empty default; a write right after it
\* raises nothing but what the transport raises and, unless a PATCH replaced
\* the data, leaves the data holding the written property alone.
C24_ProfileDeleteClearsData ==
    [][ /\ (last'.op = "delete" /\ last'.res = "ok")
             => ( /\ Len(calls') = 1
                  /\ calls'[1].method = "DELETE"
                  /\ calls'[1].path = ProfilePath
                  /\ profile'.data = EmptyMap )
        /\ ( /\ last.op = "delete" /\ last.res = "ok" /\ last'.op = "read"
             /\ last'.args.name \in RecognizedNames )
             => (last'.res = "ok" /\ last'.ret = EmptyDefault(last'.args.name))
        /\ (last.op = "delete" /\ last.res = "ok" /\ last'.op = "write")
             => ( /\ last'.res \in {"ok", "TransportError"}
                  /\ (calls' = <<>> \/ ~calls'[1].ok)
                       => profile'.data = [k \in {last'.args.name} |-> last'.args.value] ) ]_vars

\* C24 witness: a write right after a delete has stored its value locally in
\* the cleared data.
C24_Witness ==
    /\ last.op = "write" /\ last.res = "ok"
    /\ calls = <<>>
    /\ profile.bound
    /\ profile.data = [k \in {"properties"} |-> List("vegan")]
    /\ profile.dirty = {"dietary_groups", "properties"}

----------------------------------------------------------------------------
(* Properties of the household member, under MemberSpec *)

\* the one call of an operation is a GET of the member's profile
IsProfileFetch(cs) ==
    /\ Len(cs) = 1
    /\ cs[1].method = "GET"
    /\ cs[1].path = ProfilePath

\* C25: on a bound member with an identifier, an access to profile while no
\* profile object is held makes one call, GET members/{id}/profile, and
\* holds and returns a profile object never returned before; an access while
\* one is held makes no call and returns that same object; the object held
\* stays the same until a refresh succeeds, and a refresh that succeeds
\* leaves none held, so that the next access fetches again.
C25_ProfileFetchedOnFirstAccessOnly ==
    [][ /\ ( /\ last'.op = "profile" /\ member.prof = None
             /\ member.bound /\ "id" \in DOMAIN member.data )
             => ( /\ last'.res = "ok"
                  /\ IsProfileFetch(calls')
                  /\ member'.prof # None
                  /\ member'.prof.id > member.made
                  /\ last'.ret = Num(member'.prof.id) )
        /\ (last'.op = "profile" /\ member.prof # None)
             => ( /\ calls' = <<>>
                  /\ last'.res = "ok"
                  /\ last'.ret = Num(member.prof.id)
                  /\ member' = member )
        /\ (member.prof # None /\ ~(last'.op = "refresh" /\ last'.res = "ok"))
             => member'.prof = member.prof
        /\ (last'.op = "refresh" /\ last'.res = "ok") => member'.prof = None ]_vars

\* C25 witness: an access has fetched the profile a second time, which takes
\* a refresh after the first fetch.
C25_Witness ==
    /\ last.op = "profile" /\ last.res = "ok"
    /\ IsProfileFetch(calls)
    /\ member.made = 2
    /\ member.prof # None
    /\ last.ret = Num(2)

----------------------------------------------------------------------------
(* Properties of the error classifier, under ClassifySpec *)

\* the response carries the error envelope: success is false and error is a
\* mapping
Enveloped(r) ==
    /\ "map" \in DOMAIN r.body
    /\ "success" \in DOMAIN r.body.map /\ r.body.map["success"] = [bool |-> FALSE]
    /\ "error" \in DOMAIN r.body.map /\ "dict" \in DOMAIN r.body.map["error"]

\* the structured code of the response is one the code table knows
HasRecognizedCode(r) ==
    /\ Enveloped(r)
    /\ "code" \in DOMAIN r.body.map["error"].dict
    /\ r.body.map["error"].dict["code"].name \in DOMAIN CODE_TO_EXCEPTION

\* the response is a failed one: its status is an error status, or its body
\* says success is not true
Failed(r) ==
    \/ r.status >= 400
    \/ "map" \in DOMAIN r.body /\ "success" \in DOMAIN r.body.map
         /\ r.body.map["success"] # [bool |-> TRUE]

\* the class raise_for_api_error raised for the response, or that of the error
\* error_from_response returned
Classified ==
    IF last.op = "raise_for_api_error" THEN last.res
    ELSE IF last.res = "ok" THEN last.ret.cls ELSE last.res

\* C26: a failed response whose error envelope holds a code of the code table
\* is classified as the class the table gives for that code, whatever its
\* status; a response in the envelope whose code the table lacks is
\* classified by its status when the status table has it, else as the
\* generic APIError.
C26_CodeWinsOverStatus ==
    (last.op # "init" /\ Enveloped(response)) =>
        IF HasRecognizedCode(response)
        THEN Classified = CODE_TO_EXCEPTION[response.body.map["error"].dict["code"].name]
        ELSE IF response.status \in DOMAIN STATUS_TO_EXCEPTION
        THEN Classified = STATUS_TO_EXCEPTION[response.status]
        ELSE Classified = "APIError"

\* C26 witness: a 404 whose envelope holds the code resource/conflict has been
\* raised as a ConflictError.
C26_Witness ==
    /\ last.op = "raise_for_api_error"
    /\ response.status = 404
    /\ HasRecognizedCode(response)
    /\ response.body.map["error"].dict["code"].name = "resource/conflict"
    /\ last.res = "ConflictError"

----------------------------------------------------------------------------
(* Properties of the HTTP client, under ClientSpec *)

\* the calls of the last operation that went to the login endpoint, and those
\* that sent the request
AuthCalls(cs) == { i \in 1..Len(cs) : cs[i].kind = "auth" }
RequestCalls(cs) == { i \in 1..Len(cs) : cs[i].kind = "request" }

\* C28: a request with method GET or DELETE and a body raises the local
\* validation error and makes no call, neither the request nor a login,
\* whatever token the client holds.
C28_BodyRejectedBeforeAnyCall ==
    [][ ( /\ last'.op = "request"
          /\ last'.args.method \in {"GET", "DELETE"}
          /\ last'.args.kwargs # EmptyMap )
          => (last'.res = "ValueError" /\ calls' = <<>>) ]_vars

\* C29: a request sent with auth enabled carries Authorization: Bearer with
\* the token the client holds, no other header whose lower-cased name is
\* authorization, and every other header of the caller with the caller's
\* value; a request with auth disabled makes no login call, leaves the token
\* and its expiry alone and carries the caller's headers and no other.
C29_AuthorizationIsTheClientsToken ==
    [][ last'.op = "request" =>
          /\ \A i \in RequestCalls(calls') :
               LET h == calls'[i].headers
                   given == last'.args.headers
               IN  IF last'.args.auth
                   THEN /\ AuthorizationHeader \in DOMAIN h
                        /\ h[AuthorizationHeader] = [bearer |-> client'.token]
                        /\ client'.token # None
                        /\ \A k \in DOMAIN h :
                             HeaderLower(k) = HeaderLower(AuthorizationHeader)
                               => k = AuthorizationHeader
                        /\ \A k \in DOMAIN given :
                             HeaderLower(k) # HeaderLower(AuthorizationHeader)
                               => (k \in DOMAIN h /\ h[k] = given[k])
                   ELSE h = given
          /\ ~last'.args.auth => (AuthCalls(calls') = {} /\ client' = client) ]_vars

\* C29 witness: a request with auth enabled whose caller gave AUTHORIZATION
\* has been sent.
C29_Witness ==
    /\ last.op = "request" /\ last.args.auth
    /\ <<"A","U","T","H","O","R","I","Z","A","T","I","O","N">> \in DOMAIN last.args.headers
    /\ RequestCalls(calls) # {}

\* C30: a request with auth enabled makes a login call, before the request
\* and only one, exactly when the client holds no token or the clock is at
\* or past the stored expiry; a login that succeeds stores as expiry the
\* clock plus expires_in less the margin min(60, max(10, expires_in / 10));
\* the request sent carries the token of that login when there was one, else
\* the token held before.
C30_ReauthenticatesWhenExpired ==
    [][ (last'.op = "request" /\ last'.args.auth) =>
          /\ AuthCalls(calls') =
               IF client.token = None \/ 10 * client.now >= client.expiry
               THEN {1} ELSE {}
          /\ \A i \in RequestCalls(calls') :
               /\ i = Len(calls')
               /\ IF AuthCalls(calls') = {}
                  THEN /\ calls'[i].headers[AuthorizationHeader] = [bearer |-> client.token]
                       /\ client' = client
                  ELSE LET d == calls'[1].reply.result
                           e == IF "expires_in" \in DOMAIN d THEN d["expires_in"].int
                                ELSE 3600
                           m == IF e < 100 THEN 100 ELSE IF e > 600 THEN 600 ELSE e
                       IN  /\ calls'[1].reply.status = 200
                           /\ \E k \in DOMAIN d :
                                /\ k \in {"token", "access_token", "jwt"}
                                /\ d[k] # Str(<<>>)
                                /\ calls'[i].headers[AuthorizationHeader] = [bearer |-> d[k]]
                           /\ client'.expiry = 10 * client.now + 10 * e - m ]_vars

\* C30 witness: at second 10 a request has been sent right after a login, and
\* carries the token of that login.
C30_Witness ==
    /\ last.op = "request" /\ last.args.auth
    /\ Len(calls) = 2
    /\ calls[1].kind = "auth" /\ calls[2].kind = "request"
    /\ client.now = 10
    /\ calls[2].headers[AuthorizationHeader] = [bearer |-> Str(<<"j","w","t">>)]

----------------------------------------------------------------------------
(* Further properties of the entity, under Spec *)

\* C31: Save(onlyDirty=false) on an entity that holds its urn issues exactly
\* one PATCH to articles/{urn} whose body maps every key of data but id,
\* creator, created_at and updated_at to its value, whatever the dirty set
\* holds; when the PATCH succeeds data is the unwrapped response and the dirty
\* set is empty.
C31_FullSaveSendsAllButManaged ==
    [][ (last'.op = "save" /\ ~last'.only_dirty /\ "urn" \in DOMAIN data)
          => ( /\ Len(calls') = 1
               /\ calls'[1].method = "PATCH"
               /\ calls'[1].path = ArticlePath(data["urn"].str)
               /\ calls'[1].body = [k \in DOMAIN data \ ManagedKeys |-> data[k]]
               /\ calls'[1].ok =>
                    /\ data' = Unwrapped(calls'[1].reply)
                    /\ dirty' = {}
                    /\ last'.res = "ok" ) ]_vars

\* C31 witness: a Save(onlyDirty=false) has sent urn, title and authors while
\* only the title was dirty (the PATCH failed, so the dirty set still shows
\* it).
C31_Witness ==
    /\ last.op = "save" /\ ~last.only_dirty
    /\ Len(calls) = 1
    /\ dirty = {"title"}
    /\ DOMAIN calls[1].body = {"urn", "title", "authors"}
    /\ "id" \in DOMAIN data

C37_DirtyKeysAreInData ==
    [][ /\ dirty' \subseteq DOMAIN data'
        /\ (last'.op = "save" /\ last'.only_dirty /\ "urn" \in DOMAIN data)
             => last'.res # "KeyError" ]_vars

\* C34: for one entity, the fetch by its identifier, Refresh, Save, Delete and
\* the fetch a lazy entity makes on its first read all address the same remote
\* path: every call these operations make goes to the path BaseEntity.get
\* requests for the identifier the entity holds.
C34_OnePathPerEntity ==
    [][ ( /\ last'.op \in {"read", "refresh", "save", "delete"}
          /\ "urn" \in DOMAIN data
          /\ calls' # <<>> )
          => \A i \in 1..Len(calls') :
               calls'[i].path = FetchEntity(data["urn"].str, Raises).call.path ]_vars

----------------------------------------------------------------------------
(* Further properties of the member profile, under ProfileSpec *)

\* C38: a save of a bound profile, called directly or by a synced write,
\* issues no call or one PATCH whose body holds at least one property, and it
\* leaves a dirty set that was not empty empty only when that PATCH carried
\* every property that was dirty.
C38_ProfilePatchCarriesDirty ==
    [][ (profile.bound /\ last'.op \in {"save", "write"})
          => LET pending == IF last'.op = "write"
                            THEN profile.dirty \cup {last'.args.name}
                            ELSE profile.dirty
             IN  /\ calls' = <<>> \/ ( /\ Len(calls') = 1
                                       /\ calls'[1].method = "PATCH"
                                       /\ DOMAIN calls'[1].body # {} )
                 /\ (pending # {} /\ profile'.dirty = {})
                      => /\ calls' # <<>>
                         /\ pending \subseteq DOMAIN calls'[1].body ]_vars

----------------------------------------------------------------------------
(* Properties of the list parser and of normalize_urn, under FunctionSpec *)

\* C32: the parser returns a list only for a payload whose result is a list
\* of identifier strings or a list of mappings that each hold urn, every
\* element it returns is an identifier string, and for every other payload
\* it raises the format error.
C32_ParserAcceptsTwoShapes ==
    last.op = "parse" =>
      LET p == response.payload
          l == IF "result" \in DOMAIN p THEN p["result"] ELSE None
          strings == IsJsonList(l) /\ \A v \in Elems(l) : IsJsonStr(v)
          mappings == IsJsonList(l) /\ \A v \in Elems(l) : "urn" \in DOMAIN v
      IN  IF strings \/ mappings
          THEN last.res = "ok" /\ \A v \in Elems(last.ret) : IsJsonStr(v)
          ELSE last.res = "ValueError"

\* the last colon of x is directly followed by a slash
SlashAfterLastColon(x) ==
    \E i \in 1..(Len(x) - 1) :
      x[i] = ":" /\ x[i+1] = "/" /\ \A k \in (i+1)..Len(x) : x[k] # ":"

\* C35 as stated: for every input string the normal form is a fixed point of
\* normalize_urn, holds no colon and no leading slash, and a full identifier
\* has the normal form of its bare slug.
C35_NormalizeIsCanonical ==
    last.op = "normalize_urn" =>
      LET x == last.args.urn
          r == response.urn
      IN  /\ normalize_urn(r) = r
          /\ \A i \in 1..Len(r) : r[i] # ":"
          /\ r = <<>> \/ r[1] # "/"
          /\ StartsWith(x, URN_PREFIX)
               => r = normalize_urn(SubSeq(x, Len(URN_PREFIX) + 1, Len(x)))

\* C35, amended: the normal form never holds a colon; and for every input
\* whose last colon is not directly followed by a slash it is a fixed point of
\* normalize_urn, has no leading slash, and a full identifier has the normal
\* form of its bare slug.
C35_NormalizeIsCanonicalUnlessSlashAfterColon ==
    last.op = "normalize_urn" =>
      LET x == last.args.urn
          r == response.urn
      IN  /\ \A i \in 1..Len(r) : r[i] # ":"
          /\ ~SlashAfterLastColon(x) =>
               /\ normalize_urn(r) = r
               /\ r = <<>> \/ r[1] # "/"
               /\ StartsWith(x, URN_PREFIX)
                    => r = normalize_urn(SubSeq(x, Len(URN_PREFIX) + 1, Len(x)))

C35_Witness ==
    /\ last.op = "normalize_urn"
    /\ last.args.urn = URN_PREFIX \o <<"a", "/">>
    /\ response.urn = <<"a", "/">>

----------------------------------------------------------------------------
(* Properties of two threads writing one entity, under ThreadSpec *)

\* the value thread t wrote is not in data and no PATCH body has carried it
ValueLost(t) ==
    LET w == threads.write[t] IN
    /\ w.key \notin DOMAIN data \/ data[w.key] # w.value
    /\ \A i \in 1..Len(calls) :
         w.key \notin DOMAIN calls[i].body \/ calls[i].body[w.key] # w.value

\* C33: a write is lost when the other thread's save stores its reply between
\* the write's assignment to data and the building of its body, the other
\* save's request not carrying the field: from then on the written value is
\* absent from data and in no PATCH body, and it stays so when both writes have
\* returned.
C33_OverwrittenWriteIsLost ==
    \A t \in threads.overwritten : ValueLost(t)

\* C33 witness: with sync enabled both writes have returned without an error,
\* the first thread's title is in data, and the authors the second thread
\* wrote are in neither data nor any of the two PATCH bodies.
C33_Witness ==
    /\ sync
    /\ \A t \in DOMAIN threads.pc : threads.pc[t] = "done"
    /\ threads.overwritten = {"second"}
    /\ Len(calls) = 2 /\ \A i \in 1..2 : calls[i].ok
    /\ data["title"] = Str(New)
    /\ data["authors"] = List("server")
    /\ ValueLost("second")

====
